---- MODULE Spec2Model ----
(***************************************************************************)
(* Orchestration core of the research bot                                  *)
(* (src/examples/research_bot/enhanced_manager.py):                        *)
(*   - evaluate_and_refine / iterative_refinement  (quality gate loop)     *)
(*   - EnhancedResearchManager._execute_web_searches (search fan-out)      *)
(*   - EnhancedResearchManager._normalize_reference_numbers                *)
(*   - EnhancedResearchManager.run (pipeline driver)                       *)
(* Each component has its own specification (SpecRefine, SpecSearch,       *)
(* SpecNorm); SpecRun composes the stages the way run() sequences them.    *)
(***************************************************************************)
EXTENDS Integers, Sequences, FiniteSets, TLC

(***************************************************************************)
(* Bounds of the model                                                     *)
(***************************************************************************)
\* largest max_iterations a caller configures
MaxIter == 3
\* scores are the levels 0 .. MaxScore of the evaluator's 0-10 scale
MaxScore == 3
\* largest number of searches in a plan
MaxTasks == 4
\* reference numerals of a report body: 0 .. MaxNum and the two-digit 10 + MaxNum
MaxNum == 2
\* largest number of inline citation markers of a report body
MaxCites == 3
\* largest number of entries of the References section of a report body
MaxEntries == 2
\* largest max_iterations of a whole run
RunMaxIter == 1
\* largest number of file snippets the file search finds
MaxFiles == 1
\* longest list of citations the searches of a run hand to the synthesizer
MaxFound == 3
\* longest report body that is serialized as JSON and extracted again
MaxBody == 3
\* longest list of search outcomes from which a prompt context is built
MaxOutcomes == 9
\* largest max_retries of an EnhancedAgent
MaxRetries == 2

(***************************************************************************)
(* Program constants                                                       *)
(***************************************************************************)
\* "Process the searches in chunks of 3"
ChunkSize == 3
\* seconds of the wait_for around each search
TaskTimeout == 120
\* seconds of the wait_for around the gather of a chunk
ChunkTimeout == 180

VARIABLES
    \* ---- configuration (EnhancedResearchManager.__init__, arguments) ----
    research_type,        \* category string handed to the loop
    max_iterations,       \* iteration cap
    min_quality_score,    \* score threshold
    \* ---- locals of iterative_refinement ----
    rf_pc,                \* position inside iterative_refinement
    initial_report,       \* the initial_report argument
    iteration,
    current_report,
    best_report,
    highest_score,
    evaluation_history,   \* sequence of <<score, feedback>>
    evaluation,           \* result of the evaluator call of this iteration
    refined_report,       \* report returned by evaluate_and_refine
    rf_ret,               \* value returned by iterative_refinement
    \* ---- observation of the external calls ----
    eval_log,             \* evaluator invocations that returned: what was submitted, what came back
    iter_reports,         \* report handed back by evaluate_and_refine, per completed iteration
    refine_calls,         \* number of refiner invocations made
    \* ---- the plan (WebSearchPlan) ----
    searches,             \* plan.searches: the tasks, named by their index in the plan
    priority_searches,    \* plan.priority_searches: indices to perform first
    \* ---- locals of _execute_web_searches ----
    se_pc,                \* position inside _execute_web_searches
    results,              \* the list that is returned
    chunk_i,              \* loop variable i: index of the first task of the chunk
    completed,            \* progress counter
    task_state,           \* per task: state of its search() coroutine
    start_order,          \* the chunks in the order they were started
    elapsed,              \* seconds since the chunk was started, at its deadlines
    chunk_log,            \* per chunk that ended: how, when, and whether a pause followed
    \* ---- _normalize_reference_numbers ----
    nb_input,             \* report_data["markdown_report"] as first handed in
    nb_prev,              \* the body before the latest call
    nb_body,              \* the body now
    nb_passes,            \* number of calls made on the body
    \* ---- the embedded-JSON extraction of _write_specialized_report ----
    js_pc,                \* "body", "content", "group", "nomatch", "done"
    js_body,              \* the markdown_report of the report the agent serializes
    js_text,              \* the text being worked on (report_content, report_text)
    \* ---- the prompt context of _write_specialized_report ----
    cx_pc,                \* "idle", "start", "built"
    cx_model,             \* str(specialized_agent.model)
    cx_results,           \* web_search_results: success and length of the summary
    cx_context,           \* the searches written into search_results_md
    \* ---- EnhancedAgent (enhanced_agent.py) ----
    ag_pc,                \* "idle", "first", "tools", "exec", "returned", "raised"
    ag_entry,             \* the method called: "run" or "run_with_tools"
    ag_max_retries,       \* self.max_retries
    ag_retry_delay,       \* self.retry_delay
    ag_handlers,          \* the keys of tool_handlers ({}: None or empty)
    ag_retry,             \* loop variable retry of run_with_tools
    ag_pending,           \* tool invocations of the response still to be handled
    ag_handled,           \* per tool: number of times its handler was awaited
    ag_messages,          \* per tool: number of tool-call/tool-result pairs appended
    ag_first,             \* API attempts made by run_with_tools itself (line 75)
    ag_follow,            \* API attempts made by its calls of _execute_with_retry
    ex_retry,             \* loop variable retry of _execute_with_retry
    ex_log,               \* the API attempts of the current call: "ok" or "fail"
    ex_sleeps,            \* the sleeps of the current call, in order
    ex_out,               \* how the current call ended, and the attempt whose error it raised
    \* ---- the Printer of a run (printer.py), seen stage by stage ----
    pv_pc,                \* the stage run is in
    pv_stype,             \* self.search_type
    pv_model,             \* str(specialized_agent.model)
    pv_orphans,           \* searches left running by a chunk whose gather raised
    pv_final,             \* the report iterative_refinement returned: "initial", "refined"
    items,                \* printer.items: per item id "absent", "open" (is_done False), "done"
    research_result,      \* printer.research_result: "", or the report whose body it holds
    \* ---- EnhancedResearchManager and the locals of run ----
    search_type,          \* self.search_type
    run_pc,               \* position inside run
    web_search_results,   \* outcomes returned by _execute_web_searches
    all_citations,        \* the urls of the "citations" of the successful outcomes, in order
    file_search_results,  \* number of snippets returned by _execute_file_searches
    write_path,           \* the return path _write_specialized_report took
    final_report,         \* report returned by iterative_refinement
    displayed,            \* report shown by _display_final_report
    router_answer,        \* what the router call did
    generation,           \* what the generation call of the synthesizer did
    report,               \* what _write_specialized_report returned
    run_error             \* the stage whose exception left run ("none": no exception)

cfgVars == <<research_type, max_iterations, min_quality_score>>

refineVars == <<rf_pc, initial_report, iteration,
                current_report, best_report, highest_score, evaluation_history,
                evaluation, refined_report, rf_ret, eval_log, iter_reports, refine_calls>>

planVars == <<searches, priority_searches>>

searchVars == <<se_pc, results, chunk_i, completed, task_state, start_order, elapsed,
               chunk_log>>

normVars == <<nb_input, nb_prev, nb_body, nb_passes>>

jsonVars == <<js_pc, js_body, js_text>>

ctxVars == <<cx_pc, cx_model, cx_results, cx_context>>

printVars == <<pv_pc, pv_stype, pv_model, pv_orphans, pv_final, items, research_result>>

agentVars == <<ag_pc, ag_entry, ag_max_retries, ag_retry_delay, ag_handlers, ag_retry,
               ag_pending, ag_handled, ag_messages, ag_first, ag_follow,
               ex_retry, ex_log, ex_sleeps, ex_out>>

runVars == <<search_type, run_pc, web_search_results, all_citations, file_search_results,
            write_path,
            final_report, displayed, router_answer, generation, report, run_error>>

vars == <<cfgVars, refineVars, planVars, searchVars, normVars, jsonVars, ctxVars, agentVars, printVars, runVars>>

(***************************************************************************)
(* Values                                                                  *)
(***************************************************************************)
ResearchTypes == {"Scientific", "Technical", "Humanities", "Interdisciplinary"}

Scores == 0 .. MaxScore

\* A report is identified by the iteration that produced it (0: the report the
\* loop was started with).  kind is the Python shape of the object: "dict" (what
\* _write_specialized_report returns), "obj" (ScientificReportData / ReportData,
\* attribute access works) or "none" (None).
Report(id, kind) == [id |-> id, kind |-> kind]

NoEvaluation == [meets_standards |-> FALSE, overall_score |-> 0, feedback |-> 0, valid |-> FALSE]

NoReturn == [how |-> "none", report |-> Report(0, "none"), score |-> 0, history |-> <<>>]

\* lines 74-82 of evaluate_and_refine, 277-287 of run: the agent for a category
SpecializedAgent(rtype) ==
    IF rtype = "Scientific" THEN "scientific_research_agent"
    ELSE IF rtype = "Technical" THEN "technical_research_agent"
    ELSE IF rtype = "Humanities" THEN "humanities_research_agent"
    ELSE IF rtype = "Interdisciplinary" THEN "interdisciplinary_research_agent"
    ELSE "None"

\* the router has not been called
NoAnswer == [failed |-> FALSE, words |-> {}]

\* the generation call of the synthesizer has not been made
NoGeneration ==
    [outcome |-> "none", items |-> "none", fragment |-> "none", headings |-> FALSE,
     final_output |-> "falsy", fault |-> "none"]

\* _write_specialized_report has returned nothing (yet): None
NoReport ==
    [kind |-> "none", short_summary |-> "none", markdown_report |-> "none",
     information_gaps |-> "none", methodological_approach |-> "none",
     citation_count |-> "none", normalized |-> FALSE]

\* the plan and the locals of _execute_web_searches while no search stage is running
SearchIdle ==
    /\ searches = <<>>
    /\ priority_searches = {}
    /\ se_pc = "idle"
    /\ results = <<>>
    /\ chunk_i = 0
    /\ completed = 0
    /\ task_state = <<>>
    /\ start_order = <<>>
    /\ elapsed = 0
    /\ chunk_log = <<>>

\* no run is in progress
RunIdle ==
    /\ search_type = "web"
    /\ run_pc = "idle"
    /\ web_search_results = <<>>
    /\ all_citations = <<>>
    /\ file_search_results = 0
    /\ write_path = "none"
    /\ final_report = Report(0, "none")
    /\ displayed = Report(0, "none")
    /\ router_answer = NoAnswer
    /\ generation = NoGeneration
    /\ report = NoReport
    /\ run_error = "none"

\* no prompt context is being built
\* the ids of the progress items of a run (lines 256, 331, 358, 390, 400, 576, 773,
\* 775, 295, 1069)
ItemIds == {"context", "routing", "routing_error", "planning", "searching", "file_search",
            "writing", "token_management", "refining", "final_report"}

\* the printer while no run is going on (printer.py lines 12-18)
PrinterIdle ==
    /\ pv_pc = "idle"
    /\ pv_stype = "web"
    /\ pv_model = "gpt-4o"
    /\ pv_orphans = FALSE
    /\ pv_final = "none"
    /\ items = [id \in ItemIds |-> "absent"]
    /\ research_result = ""

\* the tools of the agent (self.tools), in list order
Tools == <<"web_search", "file_search">>

NoOutcome == [how |-> "none", err |-> 0]

\* the agent while no call is running
AgentIdle ==
    /\ ag_pc = "idle"
    /\ ag_entry = "run"
    /\ ag_max_retries = 0
    /\ ag_retry_delay = 1
    /\ ag_handlers = {}
    /\ ag_retry = 0
    /\ ag_pending = <<>>
    /\ ag_handled = [t \in {Tools[k] : k \in DOMAIN Tools} |-> 0]
    /\ ag_messages = [t \in {Tools[k] : k \in DOMAIN Tools} |-> 0]
    /\ ag_first = 0
    /\ ag_follow = 0
    /\ ex_retry = 0
    /\ ex_log = <<>>
    /\ ex_sleeps = <<>>
    /\ ex_out = NoOutcome

ContextIdle ==
    /\ cx_pc = "idle"
    /\ cx_model = "gpt-4o"
    /\ cx_results = <<>>
    /\ cx_context = <<>>

\* no text is being extracted
JsonIdle ==
    /\ js_pc = "idle"
    /\ js_body = <<>>
    /\ js_text = <<>>

\* no report body is being normalized
NormIdle ==
    /\ nb_input = <<>>
    /\ nb_prev = <<>>
    /\ nb_body = <<>>
    /\ nb_passes = 0

(***************************************************************************)
(* iterative_refinement and evaluate_and_refine                            *)
(***************************************************************************)
\* line 185: while iteration < max_iterations
LoopContinuesOffByOne(it, maxit) == it <= maxit

LoopContinues(it, maxit) == it < maxit

\* line 109: evaluate_and_refine returns the report as it is
ReturnsAsIs(ev, rtype) == ev.meets_standards \/ SpecializedAgent(rtype) = "None"

\* lines 204-206: keep track of the best report so far
TrackBestLatest(score, refined, highest, best) == <<score, refined>>

\* as TrackBest, but a report with an equal score replaces the best one
TrackBestAtLeast(score, refined, highest, best) ==
    IF score >= highest THEN <<score, refined>> ELSE <<highest, best>>

TrackBest(score, refined, highest, best) ==
    IF score > highest THEN <<score, refined>> ELSE <<highest, best>>

\* line 212: the report meets the quality threshold
MeetsThreshold(meets, score, minscore) == meets \/ score >= minscore

\* line 201: evaluation_history.append((score, feedback))
RecordHistory(hist, score, feedback, minscore) == Append(hist, <<score, feedback>>)

\* lines 185-186 (loop entered) : iteration += 1, then the evaluator is awaited
RefineLoopEnter ==
    /\ rf_pc = "loop"
    /\ LoopContinues(iteration, max_iterations)
    /\ iteration' = iteration + 1
    /\ rf_pc' = "evaluating"
    /\ UNCHANGED <<cfgVars, planVars, searchVars, normVars, jsonVars, ctxVars, agentVars, printVars, runVars, initial_report, current_report,
                   best_report, highest_score, evaluation_history, evaluation,
                   refined_report, rf_ret, eval_log, iter_reports, refine_calls>>

\* lines 185, 220-224: the loop is over, return the best report found
RefineExhausted ==
    /\ rf_pc = "loop"
    /\ ~LoopContinues(iteration, max_iterations)
    /\ rf_ret' = [how |-> "Exhausted", report |-> best_report, score |-> highest_score,
                  history |-> evaluation_history]
    /\ rf_pc' = "returned"
    /\ UNCHANGED <<cfgVars, planVars, searchVars, normVars, jsonVars, ctxVars, agentVars, printVars, runVars, initial_report, iteration,
                   current_report, best_report, highest_score, evaluation_history,
                   evaluation, refined_report, eval_log, iter_reports, refine_calls>>

\* lines 100-110: the evaluator call returns an evaluation
EvaluatorReturns ==
    /\ rf_pc = "evaluating"
    /\ \E meets \in BOOLEAN, score \in Scores :
          LET ev == [meets_standards |-> meets, overall_score |-> score,
                     feedback |-> iteration, valid |-> TRUE]
          IN /\ evaluation' = ev
             /\ eval_log' = Append(eval_log, [report |-> current_report,
                                              score |-> score, meets |-> meets])
             /\ IF ReturnsAsIs(ev, research_type)
                  THEN /\ refined_report' = current_report
                       /\ rf_pc' = "record"
                  ELSE /\ refined_report' = refined_report
                       /\ rf_pc' = "refining"
    /\ UNCHANGED <<cfgVars, planVars, searchVars, normVars, jsonVars, ctxVars, agentVars, printVars, runVars, initial_report, iteration,
                   current_report, best_report, highest_score, evaluation_history,
                   rf_ret, iter_reports, refine_calls>>

\* lines 100-106: Runner.run / final_output_as raise; nothing catches the error in
\* evaluate_and_refine or in iterative_refinement
EvaluatorFails ==
    /\ rf_pc = "evaluating"
    /\ rf_pc' = "raised"
    /\ UNCHANGED <<cfgVars, planVars, searchVars, normVars, jsonVars, ctxVars, agentVars, printVars, runVars, initial_report, iteration,
                   current_report, best_report, highest_score, evaluation_history,
                   evaluation, refined_report, rf_ret, eval_log, iter_reports,
                   refine_calls>>

\* lines 127-151: the refiner call returns; the result is a ScientificReportData, or
\* (parse failure, lines 136-149) a ReportData built from the text: an object either way
RefinerReturns ==
    /\ rf_pc = "refining"
    /\ refine_calls' = refine_calls + 1
    /\ refined_report' = Report(iteration, "obj")
    /\ rf_pc' = "record"
    /\ UNCHANGED <<cfgVars, planVars, searchVars, normVars, jsonVars, ctxVars, agentVars, printVars, runVars, initial_report, iteration,
                   current_report, best_report, highest_score, evaluation_history,
                   evaluation, rf_ret, eval_log, iter_reports>>

\* lines 127-130: Runner.run raises; the error leaves evaluate_and_refine and the loop
RefinerFails ==
    /\ rf_pc = "refining"
    /\ refine_calls' = refine_calls + 1
    /\ rf_pc' = "raised"
    /\ UNCHANGED <<cfgVars, planVars, searchVars, normVars, jsonVars, ctxVars, agentVars, printVars, runVars, initial_report, iteration,
                   current_report, best_report, highest_score, evaluation_history,
                   evaluation, refined_report, rf_ret, eval_log, iter_reports>>

\* lines 192-218: evaluate_and_refine has returned (refined_report, score, feedback,
\* meets_standards); record, track the best, adopt the report, test the threshold
RecordEvaluation ==
    /\ rf_pc = "record"
    /\ LET score == evaluation.overall_score
           hist  == RecordHistory(evaluation_history, score, evaluation.feedback,
                                  min_quality_score)
           best  == TrackBest(score, refined_report, highest_score, best_report)
       IN /\ evaluation_history' = hist
          /\ highest_score' = best[1]
          /\ best_report' = best[2]
          /\ current_report' = refined_report
          /\ iter_reports' = Append(iter_reports, refined_report)
          /\ IF MeetsThreshold(evaluation.meets_standards, score, min_quality_score)
               THEN /\ rf_ret' = [how |-> "Satisfied", report |-> refined_report,
                                  score |-> score, history |-> hist]
                    /\ rf_pc' = "returned"
               ELSE /\ rf_ret' = rf_ret
                    /\ rf_pc' = "loop"
    /\ UNCHANGED <<cfgVars, planVars, searchVars, normVars, jsonVars, ctxVars, agentVars, printVars, runVars, initial_report, iteration,
                   evaluation, refined_report, eval_log, refine_calls>>

\* lines 179-183: the locals of iterative_refinement at its entry
RefineEntry(initial) ==
    /\ rf_pc = "loop"
    /\ initial_report = initial
    /\ iteration = 0
    /\ highest_score = 0
    /\ current_report = initial
    /\ best_report = initial
    /\ evaluation_history = <<>>
    /\ evaluation = NoEvaluation
    /\ refined_report = initial
    /\ rf_ret = NoReturn
    /\ eval_log = <<>>
    /\ iter_reports = <<>>
    /\ refine_calls = 0

\* the loop is called with a report of the synthesizer (a dict, or None)
InitRefine ==
    /\ research_type \in ResearchTypes
    /\ max_iterations \in 0 .. MaxIter
    /\ min_quality_score \in 1 .. MaxScore
    /\ \E kind \in {"dict", "none"} : RefineEntry(Report(0, kind))
    /\ SearchIdle
    /\ NormIdle
    /\ JsonIdle
    /\ ContextIdle
    /\ AgentIdle
    /\ PrinterIdle
    /\ RunIdle

NextRefine ==
    \/ RefineLoopEnter
    \/ RefineExhausted
    \/ EvaluatorReturns
    \/ EvaluatorFails
    \/ RefinerReturns
    \/ RefinerFails
    \/ RecordEvaluation

SpecRefine == InitRefine /\ [][NextRefine]_vars

(***************************************************************************)
(* EnhancedResearchManager._execute_web_searches                           *)
(***************************************************************************)
\* a plan of n searches: task k is plan.searches[k] (0-based, as in the code)
PlanOf(n) == [k \in 1 .. n |-> k - 1]

Min2(a, b) == IF a < b THEN a ELSE b

\* line 527: chunk = search_plan.searches[i:i + 3]
ChunkAt(plan, i) == SubSeq(plan, i + 1, Min2(i + ChunkSize, Len(plan)))

SeqRange(q) == {q[k] : k \in 1 .. Len(q)}

\* lines 424-429, 504-510, 513-518: the dict search() returns
OutcomeTimeoutSucceeds(task, state) ==
    [task |-> task,
     success |-> (state \in {"ok", "timeout"}),
     error |-> IF state = "ok" THEN "none"
               ELSE IF state = "timeout" THEN "Search timed out after 120 seconds"
               ELSE "error"]

Outcome(task, state) ==
    [task |-> task,
     success |-> (state = "ok"),
     error |-> IF state = "ok" THEN "none"
               ELSE IF state = "timeout" THEN "Search timed out after 120 seconds"
               ELSE "error"]

\* lines 551-556: the dict recorded for a task of a chunk that timed out
ChunkTimeoutOutcomeKept(task) ==
    [task |-> task, success |-> TRUE, error |-> "none"]

ChunkTimeoutOutcome(task) ==
    [task |-> task, success |-> FALSE, error |-> "Search chunk timed out"]

\* line 530: asyncio.gather returns the results in the order of the chunk
GatherResults(chunk, states) == [k \in 1 .. Len(chunk) |-> Outcome(chunk[k], states[chunk[k]])]

\* the searches of the chunk that is being gathered
CurrentChunk == SeqRange(ChunkAt(searches, chunk_i))

\* a search() coroutine that has been started and has not ended: it awaits the
\* agent ("running"), or its 120 s wait_for has expired and awaits the end of the
\* cancelled agent call ("stuck": wait_for returns only once the call is over)
InFlight == {t \in DOMAIN task_state : task_state[t] \in {"running", "stuck"}}

\* line 525: range(0, len(search_plan.searches), 3): the value of i after i
NextChunkOverlapping(i) == i + ChunkSize - 1

NextChunk(i) == i + ChunkSize

\* line 525: for i in range(0, len(search_plan.searches), 3); lines 527-532: the
\* searches of the chunk are handed to gather, which starts them together
SearchChunkStart ==
    /\ se_pc = "loop"
    /\ chunk_i < Len(searches)
    /\ LET chunk == ChunkAt(searches, chunk_i)
       IN /\ task_state' = [t \in DOMAIN task_state |->
                               IF t \in SeqRange(chunk) THEN "running" ELSE task_state[t]]
          /\ start_order' = Append(start_order, chunk)
    /\ se_pc' = "gather"
    /\ elapsed' = 0
    /\ UNCHANGED <<cfgVars, refineVars, normVars, jsonVars, ctxVars, agentVars, printVars, runVars, planVars, results, chunk_i, completed,
                   chunk_log>>

\* lines 416-422 and 529-532: time passes while gather is awaited, up to the next
\* deadline of the chunk: 120 s (the wait_for of each search), then 180 s (the
\* wait_for around gather).  At 120 s every search still awaiting its agent is
\* timed out, so time goes on only once each of them has ended or is stuck.
SearchTimePasses ==
    /\ se_pc = "gather"
    /\ CurrentChunk \cap InFlight # {}
    /\ \A t \in CurrentChunk : task_state[t] # "raised"
    /\ \/ /\ elapsed < TaskTimeout
          /\ elapsed' = TaskTimeout
       \/ /\ elapsed = TaskTimeout
          /\ \A t \in CurrentChunk : task_state[t] # "running"
          /\ elapsed' = ChunkTimeout
    /\ UNCHANGED <<cfgVars, refineVars, normVars, jsonVars, ctxVars, agentVars, printVars, runVars, planVars, se_pc, results, chunk_i,
                   completed, task_state, start_order, chunk_log>>

\* lines 408-510: a search() coroutine finishes with a dict: the search succeeded
\* ("ok"), its 120 s wait_for expired ("timeout", lines 422-429), or an exception was
\* caught by the handler of lines 511-518 ("error").  A search of the chunk that is
\* being gathered times out when its 120 s are over, and ends before the 180 s of
\* the chunk or is cancelled then; a search left behind by an earlier chunk has a
\* clock of its own.
SearchTaskFinishes ==
    /\ \E t \in InFlight, o \in {"ok", "timeout", "error"} :
          /\ (se_pc = "gather" /\ t \in CurrentChunk) =>
                 /\ elapsed < ChunkTimeout
                 /\ task_state[t] = "running" =>
                        IF o = "timeout" THEN elapsed = TaskTimeout ELSE elapsed < TaskTimeout
          /\ task_state' = [task_state EXCEPT ![t] = o]
    /\ UNCHANGED <<cfgVars, refineVars, normVars, jsonVars, ctxVars, agentVars, printVars, runVars, planVars, se_pc, results, chunk_i, completed,
                   start_order, elapsed, chunk_log>>

\* lines 416-422: the 120 s of a search are over but the cancelled agent call has
\* not ended yet: asyncio.wait_for keeps waiting for it
SearchTaskStuck ==
    /\ se_pc = "gather"
    /\ elapsed = TaskTimeout
    /\ \E t \in CurrentChunk :
          /\ task_state[t] = "running"
          /\ task_state' = [task_state EXCEPT ![t] = "stuck"]
    /\ UNCHANGED <<cfgVars, refineVars, normVars, jsonVars, ctxVars, agentVars, printVars, runVars, planVars, se_pc, results, chunk_i, completed,
                   start_order, elapsed, chunk_log>>

\* an exception leaves search(): lines 405-406 are outside the try, and the handlers
\* themselves (print at lines 423 and 512) run unprotected
SearchTaskRaises ==
    /\ \E t \in InFlight :
          /\ (se_pc = "gather" /\ t \in CurrentChunk) => elapsed < ChunkTimeout
          /\ task_state' = [task_state EXCEPT ![t] = "raised"]
    /\ UNCHANGED <<cfgVars, refineVars, normVars, jsonVars, ctxVars, agentVars, printVars, runVars, planVars, se_pc, results, chunk_i, completed,
                   start_order, elapsed, chunk_log>>

\* lines 529-545: gather returned; results.extend(chunk_results), progress, and the
\* pause when another chunk follows
SearchGatherDone ==
    /\ se_pc = "gather"
    /\ LET chunk == ChunkAt(searches, chunk_i)
       IN /\ \A t \in SeqRange(chunk) : task_state[t] \in {"ok", "timeout", "error"}
          /\ results' = results \o GatherResults(chunk, task_state)
          /\ completed' = completed + Len(chunk)
    /\ IF chunk_i + ChunkSize < Len(searches)
         THEN /\ se_pc' = "sleep"
              /\ chunk_i' = chunk_i
         ELSE /\ se_pc' = "loop"
              /\ chunk_i' = NextChunk(chunk_i)
    /\ elapsed' = 0
    /\ chunk_log' = Append(chunk_log, [how |-> "gathered", at |-> elapsed, slept |-> FALSE])
    /\ UNCHANGED <<cfgVars, refineVars, normVars, jsonVars, ctxVars, agentVars, printVars, runVars, planVars, task_state, start_order>>

\* line 545: await asyncio.sleep(1) is over, next value of i
SearchSleepDone ==
    /\ se_pc = "sleep"
    /\ se_pc' = "loop"
    /\ chunk_i' = NextChunk(chunk_i)
    /\ chunk_log' = [chunk_log EXCEPT ![Len(chunk_log)].slept = TRUE]
    /\ UNCHANGED <<cfgVars, refineVars, normVars, jsonVars, ctxVars, agentVars, printVars, runVars, planVars, results, completed, task_state,
                   start_order, elapsed>>

\* lines 546-563: the 180 s wait_for around gather expired while a search of the chunk
\* was still pending; the pending searches are cancelled and every task of the chunk
\* is recorded as failed
SearchChunkTimeout ==
    /\ se_pc = "gather"
    /\ elapsed = ChunkTimeout
    /\ LET chunk == ChunkAt(searches, chunk_i)
       IN /\ SeqRange(chunk) \cap InFlight # {}
          /\ \A t \in SeqRange(chunk) : task_state[t] # "raised"
          /\ task_state' = [t \in DOMAIN task_state |->
                               IF t \in SeqRange(chunk) /\ t \in InFlight
                                 THEN "cancelled" ELSE task_state[t]]
          /\ results' = results \o [k \in 1 .. Len(chunk) |-> ChunkTimeoutOutcome(chunk[k])]
          /\ completed' = completed + Len(chunk)
    /\ chunk_i' = NextChunk(chunk_i)
    /\ se_pc' = "loop"
    /\ elapsed' = 0
    /\ chunk_log' = Append(chunk_log, [how |-> "timeout", at |-> elapsed, slept |-> FALSE])
    /\ UNCHANGED <<cfgVars, refineVars, normVars, jsonVars, ctxVars, agentVars, printVars, runVars, planVars, start_order>>

\* lines 564-566: gather raised the exception of one of its searches; "continue with
\* the next chunk": nothing is added to results, the other searches keep running
SearchChunkError ==
    /\ se_pc = "gather"
    /\ \E t \in SeqRange(ChunkAt(searches, chunk_i)) : task_state[t] = "raised"
    /\ chunk_i' = NextChunk(chunk_i)
    /\ se_pc' = "loop"
    /\ elapsed' = 0
    /\ chunk_log' = Append(chunk_log, [how |-> "error", at |-> elapsed, slept |-> FALSE])
    /\ UNCHANGED <<cfgVars, refineVars, normVars, jsonVars, ctxVars, agentVars, printVars, runVars, planVars, results, completed, task_state,
                   start_order>>

\* lines 568-571: the loop is over, return results
SearchReturn ==
    /\ se_pc = "loop"
    /\ chunk_i >= Len(searches)
    /\ se_pc' = "returned"
    /\ UNCHANGED <<cfgVars, refineVars, normVars, jsonVars, ctxVars, agentVars, printVars, runVars, planVars, results, chunk_i, completed,
                   task_state, start_order, elapsed, chunk_log>>

\* lines 397-402, 520-522: the locals at the entry of _execute_web_searches(plan)
SearchEntry(n, prio) ==
    /\ searches = PlanOf(n)
    /\ priority_searches = prio
    /\ se_pc = "loop"
    /\ results = <<>>
    /\ chunk_i = 0
    /\ completed = 0
    /\ task_state = [t \in 0 .. (n - 1) |-> "pending"]
    /\ start_order = <<>>
    /\ elapsed = 0
    /\ chunk_log = <<>>

\* the locals of the refinement loop while it is not running
RefineLocalsIdle ==
    /\ rf_pc = "idle"
    /\ initial_report = Report(0, "none")
    /\ iteration = 0
    /\ highest_score = 0
    /\ current_report = Report(0, "none")
    /\ best_report = Report(0, "none")
    /\ evaluation_history = <<>>
    /\ evaluation = NoEvaluation
    /\ refined_report = Report(0, "none")
    /\ rf_ret = NoReturn
    /\ eval_log = <<>>
    /\ iter_reports = <<>>
    /\ refine_calls = 0

\* the configuration and the locals of the refinement loop while it is not running
RefineIdle ==
    /\ research_type = "Interdisciplinary"
    /\ max_iterations = 0
    /\ min_quality_score = MaxScore
    /\ RefineLocalsIdle

InitSearch ==
    /\ RefineIdle
    /\ NormIdle
    /\ JsonIdle
    /\ ContextIdle
    /\ AgentIdle
    /\ PrinterIdle
    /\ RunIdle
    /\ \E n \in 0 .. MaxTasks : \E prio \in SUBSET (0 .. (n - 1)) : SearchEntry(n, prio)

NextSearch ==
    \/ SearchChunkStart
    \/ SearchTimePasses
    \/ SearchTaskFinishes
    \/ SearchTaskStuck
    \/ SearchTaskRaises
    \/ SearchGatherDone
    \/ SearchSleepDone
    \/ SearchChunkTimeout
    \/ SearchChunkError
    \/ SearchReturn

SpecSearch == InitSearch /\ [][NextSearch]_vars

(***************************************************************************)
(* Properties of the search executor                                       *)
(***************************************************************************)
OutcomesOf(t) == {k \in 1 .. Len(results) : results[k].task = t}

\* C1: whatever the searches and the chunks do (successes, hard errors, per-task
\* timeouts, chunk timeouts, chunk errors), the executor returns exactly one outcome
\* per planned search: as many outcomes as searches, none missing, none twice.
C1_OneOutcomePerTask ==
    se_pc = "returned" =>
        /\ Len(results) = Len(searches)
        /\ \A t \in SeqRange(searches) : Cardinality(OutcomesOf(t)) = 1

\* C10: the searches at the priority indices are started before all others: the
\* first chunk contains the prioritized searches (all of them, or only them when
\* there are more than a chunk holds).
C10_PriorityFirst ==
    Len(start_order) >= 1 =>
        \/ priority_searches \subseteq SeqRange(start_order[1])
        \/ SeqRange(start_order[1]) \subseteq priority_searches

\* the searches of the c-th chunk that was started
ChunkTasks(c) == SeqRange(start_order[c])

\* C11: the searches run in contiguous chunks of 3, one chunk after the other: at
\* most 3 searches are in flight, all of the same chunk, and a chunk is started
\* only when every search of the chunk before has an outcome in results (gathered,
\* or recorded as failed by the chunk timeout).
C11_OneChunkInFlight ==
    /\ Cardinality(InFlight) <= ChunkSize
    /\ \A c \in 1 .. Len(start_order) :
          /\ start_order[c] = ChunkAt(searches, (c - 1) * ChunkSize)
          /\ c < Len(start_order) =>
                /\ InFlight \cap ChunkTasks(c) = {}
                /\ \A t \in ChunkTasks(c) : OutcomesOf(t) # {}

\* number of times search t was started
Attempts(t) == Cardinality({c \in 1 .. Len(start_order) : t \in ChunkTasks(c)})

\* C12 (state part): no search is in two chunks, and a search that timed out or
\* failed is reported as a failure.
AttemptedOnce ==
    /\ \A t \in DOMAIN task_state : Attempts(t) <= 1
    /\ \A k \in 1 .. Len(results) :
          task_state[results[k].task] \in {"timeout", "error"} => ~results[k].success

\* C12 (step part): only a search that was never started is started.
NeverRestarted ==
    \A t \in DOMAIN task_state :
        (t \in DOMAIN task_state' /\ task_state'[t] = "running" /\ task_state[t] # "running")
            => task_state[t] = "pending"

\* C12: within one search stage every search is attempted at most once: a search
\* that timed out or failed gives a failure outcome and is not started again, in
\* its chunk or in a later one.
C12_AttemptedAtMostOnce == [](AttemptedOnce) /\ [][NeverRestarted]_vars

\* C12 witness: two chunks were run, a search timed out, another failed, and the
\* executor returned.
C12_Witness ==
    /\ se_pc = "returned"
    /\ Len(start_order) = 2
    /\ \E t, u \in DOMAIN task_state : task_state[t] = "timeout" /\ task_state[u] = "error"

\* search k of the c-th chunk ran into its 120 s timeout and the others succeeded
OneTimesOut(c, k) ==
    /\ k \in ChunkTasks(c)
    /\ task_state[k] = "timeout"
    /\ \A t \in ChunkTasks(c) \ {k} : task_state[t] = "ok"

\* C13: when one search of a chunk of N never completes and the others succeed,
\* the chunk gives N outcomes, a failure for that search and a success for each
\* other, and it ends when the 120 s of the search are over, before the 180 s of
\* the chunk.
C13_TaskTimeoutBoundsChunk ==
    \A c \in 1 .. Len(chunk_log) : \A k \in ChunkTasks(c) :
        OneTimesOut(c, k) =>
            /\ chunk_log[c].how = "gathered"
            /\ chunk_log[c].at = TaskTimeout
            /\ chunk_log[c].at < ChunkTimeout
            /\ \A t \in ChunkTasks(c) :
                  /\ Cardinality(OutcomesOf(t)) = 1
                  /\ \A j \in OutcomesOf(t) : results[j].success = (t # k)

\* C13 witness: a plan of one chunk of 3, the middle search timed out, the others
\* succeeded, and the executor returned 3 outcomes.
C13_Witness ==
    /\ se_pc = "returned"
    /\ Len(searches) = 3
    /\ Len(chunk_log) = 1
    /\ OneTimesOut(1, 1)
    /\ Len(results) = 3

\* C14: when the 180 s of a chunk are over, every search of the chunk is recorded
\* once, as a failure with the reason "Search chunk timed out", the searches that
\* had succeeded included; the searches still waiting are cancelled and give no
\* outcome; the loop goes on with the next chunk.
C14_ChunkTimeoutFailsAll ==
    \A c \in 1 .. Len(chunk_log) :
        chunk_log[c].how = "timeout" =>
            /\ chunk_log[c].at = ChunkTimeout
            /\ \A t \in ChunkTasks(c) :
                  /\ Cardinality(OutcomesOf(t)) = 1
                  /\ \A j \in OutcomesOf(t) :
                        ~results[j].success /\ results[j].error = "Search chunk timed out"
                  /\ t \notin InFlight
            /\ (c = Len(start_order)) =>
                  /\ se_pc \in {"loop", "returned"}
                  /\ chunk_i = c * ChunkSize

\* C14 witness: a chunk timed out although one of its searches had succeeded, and
\* the next chunk was started.
C14_Witness ==
    \E c \in 1 .. Len(chunk_log) :
        /\ chunk_log[c].how = "timeout"
        /\ \E t \in ChunkTasks(c) : task_state[t] = "ok"
        /\ \E t \in ChunkTasks(c) : task_state[t] = "cancelled"
        /\ Len(start_order) > c

(***************************************************************************)
(* EnhancedResearchManager._normalize_reference_numbers                    *)
(*                                                                         *)
(* The markdown body is a sequence of the pieces the three patterns of the *)
(* function can tell apart:                                                *)
(*   Cite(n)     "([Reference n](url))"   found by ref_pattern             *)
(*   Bare(n)     "[Reference n]" not preceded by "(" : not found by        *)
(*               ref_pattern, but rewritten by str.replace                 *)
(*   RefHead     the heading "## References"                               *)
(*   H2          any other "## ..." heading                                *)
(*   Entry(n,t)  a list line "n. [t](url)"                                 *)
(* Numerals are written in decimal without leading zeros.                  *)
(***************************************************************************)
Cite(n) == [k |-> "cite", n |-> n, t |-> "-"]

Bare(n) == [k |-> "bare", n |-> n, t |-> "-"]

RefHead == [k |-> "head", n |-> 0, t |-> "-"]

H2 == [k |-> "h2", n |-> 0, t |-> "-"]

Entry(n, t) == [k |-> "entry", n |-> n, t |-> t]

Numerals == (0 .. MaxNum) \cup {10 + MaxNum}

LinkTexts == {"A", "B"}

\* number of decimal digits of a numeral
Digits(n) == IF n < 10 THEN 1 ELSE IF n < 100 THEN 2 ELSE 3

Pow10(d) == IF d = 1 THEN 10 ELSE IF d = 2 THEN 100 ELSE 1000

\* line 1035: refs = re.findall(r'\(\[Reference (\d+)\]', body), as set(refs)
RefsFound(body) == {body[i].n : i \in {j \in DOMAIN body : body[j].k = "cite"}}

RECURSIVE SortAsc(_)
\* line 1039: sorted(set(refs), key=int)
SortAsc(S) ==
    IF S = {} THEN <<>>
    ELSE LET m == CHOOSE x \in S : \A y \in S : x <= y
         IN <<m>> \o SortAsc(S \ {m})

\* line 1039: ref_map = {old: i+1 for i, old in enumerate(sorted(...))}
RefMap(S) == [old \in S |-> Cardinality({x \in S : x <= old})]

\* lines 1043-1045: body.replace('[Reference old]', '[Reference new]')
ReplaceMarker(body, old, new) ==
    [i \in DOMAIN body |->
        IF body[i].k \in {"cite", "bare"} /\ body[i].n = old
          THEN [body[i] EXCEPT !.n = new]
          ELSE body[i]]

RECURSIVE ReplaceAllMarkers(_, _, _)
\* lines 1042-1045: for old, new in ref_map.items(): one replace after the other, in
\* the insertion order of the dict (ascending old numeral), each on the result of
\* the one before
ReplaceAllMarkers(body, order, map) ==
    IF order = <<>> THEN body
    ELSE ReplaceAllMarkers(ReplaceMarker(body, Head(order), map[Head(order)]),
                           Tail(order), map)

IsHeading(tok) == tok.k \in {"head", "h2"}

\* line 1049: re.search(r'## References\s+([\s\S]+?)(?=##|$)', body): the positions
\* of the pieces in group(1).  The group starts after the first "## References" and
\* takes at least one character, so a heading that follows immediately does not end
\* it; it ends before the next "##" after that, or at the end of the body.
RefSection(body) ==
    LET heads == {i \in DOMAIN body : body[i].k = "head"}
    IN IF heads = {} THEN {}
       ELSE LET h == CHOOSE i \in heads : \A j \in heads : i <= j
                ends == {j \in DOMAIN body : j >= h + 2 /\ IsHeading(body[j])}
                e == IF ends = {} THEN Len(body) + 1
                     ELSE CHOOSE j \in ends : \A j2 \in ends : j <= j2
            IN (h + 1) .. (e - 1)

RECURSIVE LinksFrom(_, _, _)
LinksFrom(body, sec, i) ==
    IF i > Len(body) THEN <<>>
    ELSE (IF i \in sec /\ body[i].k = "entry" THEN <<<<body[i].n, body[i].t>>>> ELSE <<>>)
         \o LinksFrom(body, sec, i + 1)

\* line 1053: ref_links = re.findall(r'(\d+)\. \[(.*?)\]', ref_section_text), in the
\* order of the text
RefLinks(body) == LinksFrom(body, RefSection(body), 1)

\* lines 1060-1062: body.replace('old. [text]', 'new. [text]') on the whole body: the
\* pattern also occurs inside a longer numeral that ends with the digits of old
\* ("2. [A]" inside "12. [A]"), whose leading digits are kept
ReplaceEntry(body, old, text, new) ==
    LET d == Pow10(Digits(old))
    IN [i \in DOMAIN body |->
          IF body[i].k = "entry" /\ body[i].t = text /\ body[i].n % d = old
            THEN [body[i] EXCEPT !.n = IF body[i].n >= d
                                          THEN (body[i].n \div d) * Pow10(Digits(new)) + new
                                          ELSE new]
            ELSE body[i]]

RECURSIVE ApplyRefLinks(_, _, _)
\* lines 1057-1062: for old_num, link_text in ref_links: if old_num in ref_map: replace
ApplyRefLinks(body, links, map) ==
    IF links = <<>> THEN body
    ELSE LET old == Head(links)[1]
             text == Head(links)[2]
             next == IF old \in DOMAIN map
                       THEN ReplaceEntry(body, old, text, map[old])
                       ELSE body
         IN ApplyRefLinks(next, Tail(links), map)

\* lines 1030-1064: _normalize_reference_numbers on the body
NormalizeBody(body) ==
    LET refs == RefsFound(body)
    IN IF refs = {} THEN body
       ELSE LET map == RefMap(refs)
                inlined == ReplaceAllMarkers(body, SortAsc(refs), map)
            IN ApplyRefLinks(inlined, RefLinks(inlined), map)

\* one call of _normalize_reference_numbers(report_data)
Normalize ==
    /\ nb_passes < 2
    /\ nb_prev' = nb_body
    /\ nb_body' = NormalizeBody(nb_body)
    /\ nb_passes' = nb_passes + 1
    /\ UNCHANGED <<cfgVars, refineVars, planVars, searchVars, jsonVars, ctxVars, agentVars, printVars, runVars, nb_input>>

SeqsUpTo(S, m) == UNION {[1 .. l -> S] : l \in 0 .. m}

\* the report bodies considered: an optional bare marker, the inline citations, an
\* optional References section, an optional later section with one list line
Bodies ==
    {b \o c \o r \o a :
        b \in {<<>>} \cup {<<Bare(n)>> : n \in 0 .. MaxNum},
        c \in SeqsUpTo({Cite(n) : n \in Numerals}, MaxCites),
        r \in {<<>>} \cup {<<RefHead>> \o es :
                  es \in SeqsUpTo({Entry(n, t) : n \in Numerals, t \in LinkTexts}, MaxEntries)},
        a \in {<<>>} \cup {<<H2, Entry(n, "A")>> : n \in 0 .. MaxNum}}

InitNorm ==
    /\ RefineIdle
    /\ JsonIdle
    /\ ContextIdle
    /\ AgentIdle
    /\ PrinterIdle
    /\ SearchIdle
    /\ RunIdle
    /\ nb_input \in Bodies
    /\ nb_prev = nb_input
    /\ nb_body = nb_input
    /\ nb_passes = 0

NextNorm == Normalize

SpecNorm == InitNorm /\ [][NextNorm]_vars

(***************************************************************************)
(* Properties of the reference normalizer                                  *)
(***************************************************************************)
CitePositions(body) == {i \in DOMAIN body : body[i].k = "cite"}

\* C8: normalization is idempotent: a second call on an already normalized body
\* leaves the body unchanged.
C8_NormalizeIdempotent == nb_passes = 2 => nb_body = nb_prev

\* C9: after normalization the inline numerals are exactly 1..N for the N distinct
\* numerals of the input, and every marker with old numeral n carries the rank of n
\* among the input numerals (injective, order-preserving, same old numeral same new
\* numeral).
C9_ContiguousFromOne ==
    nb_passes = 1 =>
        LET olds == RefsFound(nb_input)
        IN /\ RefsFound(nb_body) = 1 .. Cardinality(olds)
           /\ \A i \in CitePositions(nb_input) :
                 /\ nb_body[i].k = "cite"
                 /\ nb_body[i].n = Cardinality({x \in olds : x <= nb_input[i].n})

(***************************************************************************)
(* Properties of the refinement loop                                       *)
(***************************************************************************)
\* an evaluation that meets the bar (spec 4.4: meetsStandards or score >= minScore)
BarMet(e) == e.meets \/ e.score >= min_quality_score

LastEval == eval_log[Len(eval_log)]

SetMax(S) == CHOOSE x \in S : \A y \in S : y <= x

ScoresSeen == {eval_log[k].score : k \in 1 .. Len(eval_log)}

HighestSeen == SetMax(ScoresSeen \cup {0})

\* the first iteration that reached the highest score
FirstBestIteration ==
    CHOOSE k \in 1 .. Len(eval_log) :
        /\ eval_log[k].score = HighestSeen
        /\ \A j \in 1 .. (k - 1) : eval_log[j].score < HighestSeen

\* C3: when the loop ends Satisfied, the report it returns is the report that was
\* submitted to the evaluator in the evaluation that met the bar, and the score it
\* returns is the score of that evaluation.
C3_SatisfiedReturnsEvaluatedReport ==
    rf_ret.how = "Satisfied" =>
        /\ rf_ret.report = LastEval.report
        /\ rf_ret.score = LastEval.score

HistoryMatchesEvaluations ==
    /\ Len(evaluation_history) <= max_iterations
    /\ rf_pc \in {"loop", "evaluating", "returned"} =>
           Len(evaluation_history) = Len(eval_log)
    /\ rf_pc \in {"refining", "record"} =>
           Len(eval_log) = Len(evaluation_history) + 1
    /\ \A k \in 1 .. Len(evaluation_history) :
           evaluation_history[k] = <<eval_log[k].score, k>>
    /\ rf_pc = "returned" => rf_ret.history = evaluation_history

\* C5 (step part): a step leaves the history alone or appends exactly one entry.
HistoryAppendOnly ==
    \/ evaluation_history' = evaluation_history
    \/ /\ Len(evaluation_history') = Len(evaluation_history) + 1
       /\ SubSeq(evaluation_history', 1, Len(evaluation_history)) = evaluation_history
       /\ Len(eval_log') = Len(evaluation_history')

\* C5: in every reachable state of the refinement loop the evaluation history is
\* append-only, gains exactly one entry per evaluation step whatever the score or the
\* transition taken, and never exceeds max_iterations entries.
C5_HistoryBounded == [](HistoryMatchesEvaluations) /\ [][HistoryAppendOnly]_vars

\* C5 witness: the loop has returned a history of max_iterations >= 2 entries whose
\* scores differ (one entry was appended for a lower and one for a higher score).
C5_Witness ==
    /\ rf_pc = "returned"
    /\ max_iterations >= 2
    /\ Len(rf_ret.history) = max_iterations
    /\ rf_ret.history[1][1] # rf_ret.history[2][1]

\* C6: a hard error of the evaluator or of the refiner never leaves the loop: the
\* loop returns a report with the score and history accumulated so far.
C6_ErrorsNeverPropagate == rf_pc # "raised"

\* C7: the loop ends Satisfied at iteration k exactly when evaluation k is the first
\* evaluation that meets the bar; it has then made exactly k evaluations and returns
\* a history of length k with that evaluation's score.
C7_SatisfiedIffFirstMeets ==
    rf_pc \in {"returned", "raised"} =>
        /\ (rf_ret.how = "Satisfied") <=> (\E k \in 1 .. Len(eval_log) : BarMet(eval_log[k]))
        /\ rf_ret.how = "Satisfied" =>
              /\ BarMet(LastEval)
              /\ \A j \in 1 .. (Len(eval_log) - 1) : ~BarMet(eval_log[j])
              /\ Len(eval_log) = iteration
              /\ iteration <= max_iterations
              /\ Len(rf_ret.history) = iteration
              /\ rf_ret.score = LastEval.score

(***************************************************************************)
(* EnhancedResearchManager.run                                             *)
(*                                                                         *)
(* run() awaits its stages one after the other and has no exception        *)
(* handler of its own: an exception that leaves a stage leaves run().      *)
(* run_pc: "route", "plan", "search", "files", "write", "generate" (the     *)
(* synthesizer is at its generation call), "refine", "display", "done" (run *)
(* returned None), "raised" (an exception left run).                       *)
(***************************************************************************)
SearchTypes == {"web", "file", "web_and_file"}

\* the words _determine_research_type looks for in the router's answer
CategoryWords == {"scientific", "technical", "humanities", "interdisciplinary"}

\* what Runner.run(self.research_router, ...) can do: fail, or answer with a
\* text that contains some of the category words
RouterAnswers == [failed : BOOLEAN, words : SUBSET CategoryWords]

\* lines 360-395: first match in the order of the if/elif chain, Interdisciplinary
\* when nothing matches or the router failed
RoutingDecision(answer) ==
    IF answer.failed THEN "Interdisciplinary"
    ELSE IF "scientific" \in answer.words THEN "Scientific"
    ELSE IF "technical" \in answer.words THEN "Technical"
    ELSE IF "humanities" \in answer.words THEN "Humanities"
    ELSE IF "interdisciplinary" \in answer.words THEN "Interdisciplinary"
    ELSE "Interdisciplinary"

\* the return statements of _write_specialized_report (each returns a dict), and
\* "no_items": result.new_items is empty, the function ends without a return
WritePaths == {"timeout", "structured", "json", "markdown", "raw", "extract_error",
               "unformatted", "no_content", "error", "no_items"}

\* the Python shape of what _write_specialized_report hands back on a path
WrittenKind(path) == IF path = "no_items" THEN "none" ELSE "dict"

(***************************************************************************)
(* EnhancedResearchManager._write_specialized_report: the generation call  *)
(* and the conversion of its result into a report                          *)
(***************************************************************************)
\* result.final_output: falsy (None, "", {}), a dict with a "markdown_report" or a
\* "short_summary" key, another dict, an instance of the agent's output_type
\* (ScientificReportData, ReportData: it has the report fields but is no dict), or
\* a text
FinalOutputs == {"falsy", "dict_report", "dict_other", "object_report", "text"}

\* What asyncio.wait_for(Runner.run(specialized_agent, prompt), timeout=300) and
\* the code up to the return can meet:
\*   outcome       "timeout" (300 s over), "error" (the call raised), "returned"
\*   items         result.new_items: "none" (empty list), "empty" (items whose text
\*                 is ""), "text" (ItemHelpers.text_message_outputs is not empty)
\*   fragment      the text has no "markdown_report" ("none"), has the word but
\*                 report_pattern does not match ("key"), or matches ("match")
\*   headings      "# " and "## " are both in the text
\*   final_output  see FinalOutputs; a text final output is the text of a message,
\*                 and the message of an output_type instance is its JSON, with
\*                 its "markdown_report" member
\*   fault         "io": os.makedirs of line 807 raises; "extract": an exception
\*                 inside the try of lines 841-950; "none"
Generations ==
    {g \in [outcome : {"timeout", "error", "returned"},
            items : {"none", "empty", "text"},
            fragment : {"none", "key", "match"},
            headings : BOOLEAN,
            final_output : FinalOutputs,
            fault : {"none", "io", "extract"}] :
        /\ g.outcome # "returned" =>
              /\ g.items = "none"
              /\ g.final_output = "falsy"
              /\ g.fault = "none"
        /\ g.items # "text" => (g.fragment = "none" /\ ~g.headings)
        /\ g.final_output = "text" => g.items = "text"
        /\ g.final_output = "object_report" => (g.items = "text" /\ g.fragment = "match")}

\* lines 778-1028: the return statement that is reached
\*   795 "timeout", 1020 "error", 862 "structured", 908 "json", 930 "markdown",
\*   950 "raw", 973 "extract_error", 983 "no_content", 1011 "unformatted";
\*   "no_items": the if of line 809 has no else, the function ends without a return
SynthPathJsonFirst(g) ==
    IF g.outcome = "timeout" THEN "timeout"
    ELSE IF g.outcome = "error" \/ g.fault = "io" THEN "error"
    ELSE IF g.items = "none" THEN "no_items"
    ELSE IF g.final_output # "falsy"
      THEN IF g.fault = "extract" THEN "extract_error"
           ELSE IF g.fragment = "match" THEN "json"
           ELSE IF g.final_output = "dict_report" THEN "structured"
           ELSE IF g.headings THEN "markdown"
           ELSE "raw"
    ELSE IF g.items = "empty" THEN "no_content"
    ELSE "unformatted"

SynthPath(g) ==
    IF g.outcome = "timeout" THEN "timeout"
    ELSE IF g.outcome = "error" \/ g.fault = "io" THEN "error"
    ELSE IF g.items = "none" THEN "no_items"
    ELSE IF g.final_output # "falsy"
      THEN IF g.fault = "extract" THEN "extract_error"
           ELSE IF g.final_output = "dict_report" THEN "structured"
           ELSE IF g.fragment = "match" THEN "json"
           ELSE IF g.headings THEN "markdown"
           ELSE "raw"
    ELSE IF g.items = "empty" THEN "no_content"
    ELSE "unformatted"

\* a dict with the seven keys of a report
ReportDict(summary, body, gaps, approach, citations, normalized) ==
    [kind |-> "dict", short_summary |-> summary, markdown_report |-> body,
     information_gaps |-> gaps, methodological_approach |-> approach,
     citation_count |-> citations, normalized |-> normalized]

\* lines 795-803, 843-862, 895-908, 911-930, 938-950, 961-973, 983-991, 999-1011,
\* 1020-1028: the value returned on each path.  normalized: the dict went through
\* _normalize_reference_numbers before the return
ReportOfNoGaps(path) ==
    IF path = "no_items" THEN NoReport
    ELSE IF path = "timeout" THEN
        ReportDict("Error: Report generation timed out", "# Error: Report Generation Timeout",
                   "empty", "Timeout occurred", "len(all_citations)", FALSE)
    ELSE IF path = "error" THEN
        ReportDict("Error: str(e)", "# Error Generating Report",
                   "empty", "Error occurred", "0", FALSE)
    ELSE IF path = "no_content" THEN
        ReportDict("Error: No content was generated.", "# Error: No Report Generated",
                   "empty", "Error occurred", "0", FALSE)
    ELSE IF path = "structured" THEN
        ReportDict("final_output", "final_output", "final_output or empty",
                   "final_output or Direct expert analysis",
                   "final_output or len(all_citations)", TRUE)
    ELSE IF path = "json" THEN
        ReportDict("fragment or first 150 characters", "unescaped fragment", "empty",
                   "Extracted from agent output", "len(all_citations)", TRUE)
    ELSE IF path = "markdown" THEN
        ReportDict("first 150 characters", "text", "empty", "Direct expert analysis",
                   "len(all_citations)", TRUE)
    ELSE
        ReportDict("first 150 characters", "text", "empty", "Direct response",
                   "len(all_citations)", TRUE)

\* as ReportOf, but the raw-text returns of lines 950 and 1011 skip the call of
\* _normalize_reference_numbers
ReportOfRawDirect(path) ==
    IF path = "no_items" THEN NoReport
    ELSE IF path = "timeout" THEN
        ReportDict("Error: Report generation timed out", "# Error: Report Generation Timeout",
                   "one entry", "Timeout occurred", "len(all_citations)", FALSE)
    ELSE IF path = "error" THEN
        ReportDict("Error: str(e)", "# Error Generating Report",
                   "one entry", "Error occurred", "0", FALSE)
    ELSE IF path = "no_content" THEN
        ReportDict("Error: No content was generated.", "# Error: No Report Generated",
                   "one entry", "Error occurred", "0", FALSE)
    ELSE IF path = "structured" THEN
        ReportDict("final_output", "final_output", "final_output or empty",
                   "final_output or Direct expert analysis",
                   "final_output or len(all_citations)", TRUE)
    ELSE IF path = "json" THEN
        ReportDict("fragment or first 150 characters", "unescaped fragment", "empty",
                   "Extracted from agent output", "len(all_citations)", TRUE)
    ELSE IF path = "markdown" THEN
        ReportDict("first 150 characters", "text", "empty", "Direct expert analysis",
                   "len(all_citations)", TRUE)
    ELSE
        ReportDict("first 150 characters", "text", "empty", "Direct response",
                   "len(all_citations)", FALSE)

ReportOf(path) ==
    IF path = "no_items" THEN NoReport
    ELSE IF path = "timeout" THEN
        ReportDict("Error: Report generation timed out", "# Error: Report Generation Timeout",
                   "one entry", "Timeout occurred", "len(all_citations)", FALSE)
    ELSE IF path = "error" THEN
        ReportDict("Error: str(e)", "# Error Generating Report",
                   "one entry", "Error occurred", "0", FALSE)
    ELSE IF path = "no_content" THEN
        ReportDict("Error: No content was generated.", "# Error: No Report Generated",
                   "one entry", "Error occurred", "0", FALSE)
    ELSE IF path = "structured" THEN
        ReportDict("final_output", "final_output", "final_output or empty",
                   "final_output or Direct expert analysis",
                   "final_output or len(all_citations)", TRUE)
    ELSE IF path = "json" THEN
        ReportDict("fragment or first 150 characters", "unescaped fragment", "empty",
                   "Extracted from agent output", "len(all_citations)", TRUE)
    ELSE IF path = "markdown" THEN
        ReportDict("first 150 characters", "text", "empty", "Direct expert analysis",
                   "len(all_citations)", TRUE)
    ELSE
        ReportDict("first 150 characters", "text", "empty", "Direct response",
                   "len(all_citations)", TRUE)

\* the urls a search can find
Urls == {"u1", "u2"}

\* lines 440-510, 655-694: every successful outcome carries the list "citations"
\* that search() extracted (it may be empty, and two searches may find the same
\* url); the synthesizer extends all_citations with the list of each successful
\* outcome.  An outcome with success False has no "citations".
CitationsOf(outcomes) ==
    IF \E k \in 1 .. Len(outcomes) : outcomes[k].success
        THEN UNION {[1 .. l -> Urls] : l \in 0 .. MaxFound}
        ELSE {<<>>}

\* lines 723-728: unique_citations, the citations deduplicated by url
UniqueCitations(cites) == {cites[k] : k \in 1 .. Len(cites)}

\* the counts an agent writes into the "citation_count" of its own report dict
AgentCounts == 0 .. MaxFound

\* lines 802, 852, 898, 927, 947, 970, 990, 1008, 1027: the values the expression
\* stored as "citation_count" can have
CitationCountValues(expr, cites) ==
    IF expr = "0" THEN {0}
    ELSE IF expr = "len(all_citations)" THEN {Len(cites)}
    ELSE IF expr = "final_output or len(all_citations)" THEN AgentCounts \cup {Len(cites)}
    ELSE {}

\* lines 259-260: research_type = await self._determine_research_type(query)
RunRoute ==
    /\ run_pc = "route"
    /\ \E answer \in RouterAnswers :
           /\ router_answer' = answer
           /\ research_type' = RoutingDecision(answer)
    /\ run_pc' = "plan"
    /\ UNCHANGED <<max_iterations, min_quality_score, refineVars, planVars, searchVars, normVars, jsonVars, ctxVars, agentVars, printVars,
                   search_type, web_search_results, all_citations, file_search_results, write_path,
                   final_report, displayed,
                   generation, report, run_error>>

\* lines 264-265, 340-353: the planner answers with a plan; line 268 starts
\* _execute_web_searches(search_plan) whatever self.search_type is.  Of the router
\* call only research_type is left (routing_decision was a local of
\* _determine_research_type)
RunPlanReturns ==
    /\ run_pc = "plan"
    /\ \E n \in 0 .. MaxTasks : \E prio \in {{}, {n - 1}} \cap SUBSET (0 .. (n - 1)) :
           /\ searches' = PlanOf(n)
           /\ priority_searches' = prio
           /\ task_state' = [t \in 0 .. (n - 1) |-> "pending"]
    /\ se_pc' = "loop"
    /\ results' = <<>>
    /\ chunk_i' = 0
    /\ completed' = 0
    /\ start_order' = <<>>
    /\ elapsed' = 0
    /\ chunk_log' = <<>>
    /\ router_answer' = NoAnswer
    /\ run_pc' = "search"
    /\ UNCHANGED <<cfgVars, refineVars, normVars, jsonVars, ctxVars, agentVars, printVars, search_type, web_search_results, all_citations,
                   file_search_results, write_path, final_report, displayed,
                   generation, report, run_error>>

\* lines 340-345: Runner.run(enhanced_planner_agent, ...) or final_output_as
\* raises; _create_search_plan has no handler, and neither has run
RunPlanFails ==
    /\ run_pc = "plan"
    /\ run_error' = "planner"
    /\ router_answer' = NoAnswer
    /\ run_pc' = "raised"
    /\ UNCHANGED <<cfgVars, refineVars, planVars, searchVars, normVars, jsonVars, ctxVars, agentVars, printVars, search_type,
                   web_search_results, all_citations, file_search_results, write_path, final_report, displayed,
                   generation, report>>

\* as AfterWebSearch, but the synthesis is left out when no file search is due
AfterWebSearchSkipsWrite(stype) ==
    IF stype \in {"file", "web_and_file"} THEN "files" ELSE "refine"

\* lines 271-291: what run does once the web search has returned
AfterWebSearch(stype) ==
    IF stype \in {"file", "web_and_file"} THEN "files" ELSE "write"

\* line 268: web_search_results = await self._execute_web_searches(search_plan);
\* the frame of the executor is gone, search_plan is not read again.
\* lines 271-272: the file search is entered for "file" and "web_and_file"
RunSearchReturned ==
    /\ run_pc = "search"
    /\ se_pc = "returned"
    /\ web_search_results' = results
    /\ all_citations' = all_citations
    /\ searches' = <<>>
    /\ priority_searches' = {}
    /\ se_pc' = "idle"
    /\ results' = <<>>
    /\ chunk_i' = 0
    /\ completed' = 0
    /\ task_state' = <<>>
    /\ start_order' = <<>>
    /\ elapsed' = 0
    /\ chunk_log' = <<>>
    /\ run_pc' = AfterWebSearch(search_type)
    /\ UNCHANGED <<cfgVars, refineVars, normVars, jsonVars, ctxVars, agentVars, printVars, search_type, file_search_results, write_path,
                   final_report, displayed,
                   router_answer, generation, report, run_error>>

\* lines 273-274, 573-642: _execute_file_searches catches every exception and
\* returns the snippets it collected (none of them has a 'relevance_score' key)
RunFileSearch ==
    /\ run_pc = "files"
    /\ \E found \in 0 .. MaxFiles : file_search_results' = found
    /\ run_pc' = "write"
    /\ UNCHANGED <<cfgVars, refineVars, planVars, searchVars, normVars, jsonVars, ctxVars, agentVars, printVars, search_type,
                   web_search_results, all_citations, write_path, final_report, displayed,
                   router_answer, generation, report, run_error>>

\* lines 290-291, 655-731: with no file snippet the synthesizer reaches the
\* generation call; it has collected the citations of the successful outcomes
\* into all_citations.  The two result lists are not read after line 731.
RunWriteCollects ==
    /\ run_pc = "write"
    /\ file_search_results = 0
    /\ all_citations' \in CitationsOf(web_search_results)
    /\ web_search_results' = <<>>
    /\ run_pc' = "generate"
    /\ UNCHANGED <<cfgVars, refineVars, planVars, searchVars, normVars, jsonVars, ctxVars, agentVars, printVars, search_type,
                   file_search_results, write_path, final_report, displayed,
                   router_answer, generation, report, run_error>>

\* lines 778-1028: the synthesizer returns by one of its paths; lines 295-310
\* enter iterative_refinement with what it returned
RunWriteReturns ==
    /\ run_pc = "generate"
    /\ \E gen \in Generations :
           LET path == SynthPath(gen)
           IN /\ generation' = gen
              /\ write_path' = path
              /\ report' = ReportOf(path)
              /\ initial_report' = Report(0, WrittenKind(path))
              /\ current_report' = Report(0, WrittenKind(path))
              /\ best_report' = Report(0, WrittenKind(path))
              /\ refined_report' = Report(0, WrittenKind(path))
    /\ rf_pc' = "loop"
    /\ iteration' = 0
    /\ highest_score' = 0
    /\ evaluation_history' = <<>>
    /\ evaluation' = NoEvaluation
    /\ rf_ret' = NoReturn
    /\ eval_log' = <<>>
    /\ iter_reports' = <<>>
    /\ refine_calls' = 0
    /\ all_citations' = <<>>
    /\ run_pc' = "refine"
    /\ UNCHANGED <<cfgVars, planVars, searchVars, normVars, jsonVars, ctxVars, agentVars, printVars, search_type,
                   web_search_results, file_search_results,
                   final_report, displayed,
                   router_answer, run_error>>

\* lines 699-708: result['relevance_score'] is read for every file snippet, before
\* the try of line 778: KeyError leaves _write_specialized_report and run
RunWriteRaises ==
    /\ run_pc = "write"
    /\ file_search_results > 0
    /\ run_error' = "synthesis"
    /\ run_pc' = "raised"
    /\ UNCHANGED <<cfgVars, refineVars, planVars, searchVars, normVars, jsonVars, ctxVars, agentVars, printVars, search_type,
                   web_search_results, all_citations, file_search_results, write_path, final_report, displayed,
                   router_answer, generation, report>>

\* lines 303-310: final_report, highest_score, evaluation_history = await ...
RunRefineReturned ==
    /\ run_pc = "refine"
    /\ rf_pc = "returned"
    /\ final_report' = rf_ret.report
    /\ run_pc' = "display"
    /\ UNCHANGED <<cfgVars, refineVars, planVars, searchVars, normVars, jsonVars, ctxVars, agentVars, printVars, search_type,
                   web_search_results, all_citations, file_search_results, write_path, displayed,
                   router_answer, generation, report, run_error>>

\* lines 303-310: an exception left iterative_refinement; run has no handler
RunRefineRaised ==
    /\ run_pc = "refine"
    /\ rf_pc = "raised"
    /\ run_error' = "refinement"
    /\ run_pc' = "raised"
    /\ UNCHANGED <<cfgVars, refineVars, planVars, searchVars, normVars, jsonVars, ctxVars, agentVars, printVars, search_type,
                   web_search_results, all_citations, file_search_results, write_path, final_report, displayed,
                   router_answer, generation, report>>

\* lines 317-326, 1066-1086: report.short_summary and report.markdown_report are
\* attributes of a report object; run then returns None
RunDisplay ==
    /\ run_pc = "display"
    /\ final_report.kind = "obj"
    /\ displayed' = final_report
    /\ run_pc' = "done"
    /\ UNCHANGED <<cfgVars, refineVars, planVars, searchVars, normVars, jsonVars, ctxVars, agentVars, printVars, search_type,
                   web_search_results, all_citations, file_search_results, write_path, final_report,
                   router_answer, generation, report, run_error>>

\* line 1068: report.short_summary on a dict or on None raises AttributeError
RunDisplayRaises ==
    /\ run_pc = "display"
    /\ final_report.kind # "obj"
    /\ run_error' = "display"
    /\ run_pc' = "raised"
    /\ UNCHANGED <<cfgVars, refineVars, planVars, searchVars, normVars, jsonVars, ctxVars, agentVars, printVars, search_type,
                   web_search_results, all_citations, file_search_results, write_path, final_report, displayed,
                   router_answer, generation, report>>

\* lines 229-243, 252-256: a manager as main.py constructs it, run() just entered
InitRun ==
    /\ search_type \in SearchTypes
    /\ max_iterations \in 0 .. RunMaxIter
    /\ min_quality_score = MaxScore - 1
    /\ research_type = "Interdisciplinary"
    /\ run_pc = "route"
    /\ web_search_results = <<>>
    /\ all_citations = <<>>
    /\ file_search_results = 0
    /\ write_path = "none"
    /\ final_report = Report(0, "none")
    /\ displayed = Report(0, "none")
    /\ router_answer = NoAnswer
    /\ generation = NoGeneration
    /\ report = NoReport
    /\ run_error = "none"
    /\ RefineLocalsIdle
    /\ SearchIdle
    /\ NormIdle
    /\ JsonIdle
    /\ ContextIdle
    /\ AgentIdle
    /\ PrinterIdle

NextRun ==
    \/ RunRoute
    \/ RunPlanReturns
    \/ RunPlanFails
    \/ (run_pc = "search" /\ NextSearch)
    \/ RunSearchReturned
    \/ RunFileSearch
    \/ RunWriteCollects
    \/ RunWriteReturns
    \/ RunWriteRaises
    \/ (run_pc = "refine" /\ NextRefine)
    \/ RunRefineReturned
    \/ RunRefineRaised
    \/ RunDisplay
    \/ RunDisplayRaises

SpecRun == InitRun /\ [][NextRun]_vars

(***************************************************************************)
(* Properties of run                                                       *)
(***************************************************************************)
\* C2: a run always terminates with a displayed final report, whatever fails
\* along the way: once run() is over it has returned normally and has shown a
\* report.
C2_RunAlwaysDisplaysReport ==
    run_pc \in {"done", "raised"} => (run_pc = "done" /\ displayed.kind = "obj")

(***************************************************************************)
(* The synthesis stage on its own: _write_specialized_report is called     *)
(* with the results of the two search stages                               *)
(***************************************************************************)
\* the lists _execute_web_searches can hand over for a plan of n searches whose
\* chunks were all gathered: one outcome per search
GatheredResults(n) ==
    {[k \in 1 .. n |-> Outcome(k - 1, f[k])] : f \in [1 .. n -> {"ok", "timeout", "error"}]}

\* lines 268-291: run has reached the call of _write_specialized_report.  The file
\* search has run only for "file" and "web_and_file" (line 272)
InitWrite ==
    /\ research_type \in ResearchTypes
    /\ max_iterations \in 0 .. RunMaxIter
    /\ min_quality_score = MaxScore - 1
    /\ search_type \in SearchTypes
    /\ run_pc = "write"
    /\ \E n \in 0 .. MaxTasks : web_search_results \in GatheredResults(n)
    /\ all_citations = <<>>
    /\ file_search_results \in 0 .. MaxFiles
    /\ search_type = "web" => file_search_results = 0
    /\ write_path = "none"
    /\ final_report = Report(0, "none")
    /\ displayed = Report(0, "none")
    /\ router_answer = NoAnswer
    /\ generation = NoGeneration
    /\ report = NoReport
    /\ run_error = "none"
    /\ RefineLocalsIdle
    /\ SearchIdle
    /\ NormIdle
    /\ JsonIdle
    /\ ContextIdle
    /\ AgentIdle
    /\ PrinterIdle

NextWrite ==
    \/ RunWriteCollects
    \/ RunWriteReturns
    \/ RunWriteRaises

SpecWrite == InitWrite /\ [][NextWrite]_vars

(***************************************************************************)
(* Properties of the router, the planner stage and the synthesizer         *)
(***************************************************************************)
\* C15: the category is always one of the four; it is Interdisciplinary when the
\* router call failed and when its answer names no category or more than one; the
\* router never ends the run.
C15_RouterFallback ==
    run_pc = "plan" =>
        /\ research_type \in ResearchTypes
        /\ (router_answer.failed \/ Cardinality(router_answer.words) # 1)
               => research_type = "Interdisciplinary"
        /\ run_error # "router"

\* C16: a failure of the planner never ends the run (the run goes on with a default
\* plan of one search).
C16_PlannerFailureContinues == run_error # "planner"

\* C17: when the generation call runs into its 300 s timeout, the synthesizer
\* returns a report dict whose body is the timeout notice and whose
\* information_gaps is not empty, and no exception leaves the stage.
C17_TimeoutGivesReport ==
    generation.outcome = "timeout" =>
        /\ run_pc = "refine"
        /\ run_error = "none"
        /\ report.kind = "dict"
        /\ report.markdown_report = "# Error: Report Generation Timeout"
        /\ report.information_gaps # "empty"
        /\ initial_report.kind = "dict"

\* C17 witness: the generation timed out and the synthesizer has returned.
C17_Witness ==
    /\ generation.outcome = "timeout"
    /\ write_path = "timeout"
    /\ run_pc = "refine"

\* C18: the synthesis stage never fails: whatever the search results and the
\* generation call, it raises nothing and hands a report to the driver.
C18_SynthesisNeverFails ==
    /\ run_error # "synthesis"
    /\ run_pc = "refine" => report.kind = "dict"

\* the generation call returned without any text: no output items, or items with
\* empty text and no structured output
NoTextAtAll(g) ==
    /\ g.outcome = "returned"
    /\ g.fault = "none"
    /\ \/ g.items = "none"
       \/ g.items = "empty" /\ g.final_output = "falsy"

\* C19: when the generation call returns without any text at all, the synthesizer
\* returns the fixed "no content generated" error report, not nothing.
C19_NoTextGivesErrorReport ==
    (run_pc = "refine" /\ NoTextAtAll(generation)) =>
        /\ report.kind = "dict"
        /\ report.short_summary = "Error: No content was generated."
        /\ report.markdown_report = "# Error: No Report Generated"

\* the paths of the chain that apply to a generation result, as the chain is
\* stated: (1) a structured object with report fields, (2) a text with a
\* markdown_report JSON fragment, (3) a text with both headings, (4) any text
ChainExpected(g) ==
    IF g.final_output \in {"dict_report", "object_report"} THEN {"structured"}
    ELSE IF g.fragment = "match" THEN {"json"}
    ELSE IF g.headings THEN {"markdown"}
    ELSE {"raw", "unformatted"}

\* C20: the output of the generation call is converted by an ordered chain in
\* which the first path that applies wins: structured object, then JSON fragment,
\* then text with headings, then raw text; a later path is never taken when an
\* earlier one applies.
C20_FirstApplicablePathWins ==
    (/\ run_pc = "refine"
     /\ generation.outcome = "returned"
     /\ generation.fault = "none"
     /\ generation.items = "text")
        => write_path \in ChainExpected(generation)

\* the return paths that hand back text the agent produced
ContentPaths == {"structured", "json", "markdown", "raw", "extract_error", "unformatted"}

\* the return paths that hand back one of the three fixed notices
NoticePaths == {"timeout", "no_content", "error"}

\* C21 as stated: every return path of the synthesizer (structured, embedded JSON,
\* markdown, raw text, extraction-error fallback, timeout report, no-content report
\* and generation-error report) passes its result through the reference normalizer
\* before returning.
C21_EveryPathNormalizes ==
    (run_pc = "refine" /\ report.kind = "dict") => report.normalized

\* C21 amended: every return path that hands back text the agent produced passes
\* its result through the reference normalizer before returning; the timeout, the
\* no-content and the generation-error report are fixed notices and are returned
\* as they are built, without a call of the normalizer.
C21_ContentPathsNormalize ==
    run_pc = "refine" =>
        /\ write_path \in ContentPaths => (report.kind = "dict" /\ report.normalized)
        /\ write_path \in NoticePaths =>
               /\ report.kind = "dict"
               /\ ~report.normalized
               /\ report.markdown_report \in {"# Error: Report Generation Timeout",
                                               "# Error: No Report Generated",
                                               "# Error Generating Report"}

\* C21 witness: the synthesizer has returned the raw text of the agent, normalized.
C21_Witness ==
    /\ run_pc = "refine"
    /\ write_path = "raw"
    /\ report.normalized

\* the synthesizer returns a report dict in this step
SynthesizerReturnsDict == run_pc = "generate" /\ run_pc' = "refine" /\ report'.kind = "dict"

\* the citation count of the returned dict is never negative, and when citations
\* were extracted it is the number of distinct urls among them
CountsDistinctCitations ==
    SynthesizerReturnsDict =>
        \A n \in CitationCountValues(report'.citation_count, all_citations) :
            /\ n >= 0
            /\ all_citations # <<>> => n = Cardinality(UniqueCitations(all_citations))

\* C22: in every report record produced by the synthesizer the citation count is
\* >= 0, and whenever citations were extracted from the search outcomes it equals
\* the number of distinct citations (deduplicated by url), not the raw number of
\* citation entries collected.
C22_CitationCountIsDistinct == [][CountsDistinctCitations]_vars

(***************************************************************************)
(* The embedded-JSON extraction of _write_specialized_report (lines        *)
(* 869-875) applied to the JSON text of a report                           *)
(*                                                                         *)
(* A text is a sequence of characters.  The characters told apart:         *)
(*   "a"   a character no step treats specially                            *)
(*   "n", "t"   the letters n and t                                        *)
(*   "NL"  newline      "TAB" tab                                          *)
(*   "Q"   double quote "BS"  backslash                                    *)
(*   "}"   the brace that closes the JSON object                           *)
(***************************************************************************)
BodyChars == {"a", "n", "NL", "TAB", "Q", "BS"}

\* json.dumps (line 830): how one character of a string is written in JSON text
JsonEscape(c) ==
    IF c = "NL" THEN <<"BS", "n">>
    ELSE IF c = "TAB" THEN <<"BS", "t">>
    ELSE IF c = "Q" THEN <<"BS", "Q">>
    ELSE IF c = "BS" THEN <<"BS", "BS">>
    ELSE <<c>>

RECURSIVE JsonString(_)
JsonString(body) ==
    IF body = <<>> THEN <<>> ELSE JsonEscape(Head(body)) \o JsonString(Tail(body))

\* the JSON text of the report from the opening quote of the markdown_report
\* member on: the escaped body, the closing quote, the end of the object
ReportContent(body) == JsonString(body) \o <<"Q", "}">>

\* line 870: ((?:\\.|[^"\\])*)" read from position i: a backslash takes the next
\* character with it ("." matches no newline), any other character but a quote
\* is taken alone, the first quote not taken ends the group.  The position of
\* that quote, 0 when the pattern does not match
RECURSIVE GroupEnd(_, _)
GroupEnd(text, i) ==
    IF i > Len(text) THEN 0
    ELSE IF text[i] = "Q" THEN i
    ELSE IF text[i] = "BS"
        THEN IF i + 1 <= Len(text) /\ text[i + 1] # "NL" THEN GroupEnd(text, i + 2) ELSE 0
    ELSE GroupEnd(text, i + 1)

\* line 874: report_match.group(1)
Group1(text) == SubSeq(text, 1, GroupEnd(text, 1) - 1)

\* str.replace of a text of two characters by one character: the occurrences are
\* found from the left and do not overlap
RECURSIVE Replace2(_, _, _, _)
Replace2(text, c1, c2, by) ==
    IF Len(text) < 2 THEN text
    ELSE IF text[1] = c1 /\ text[2] = c2
        THEN <<by>> \o Replace2(SubSeq(text, 3, Len(text)), c1, c2, by)
    ELSE <<text[1]>> \o Replace2(Tail(text), c1, c2, by)

\* line 875: report_text.replace("\\n", "\n").replace('\\"', '"')
Unescape(text) == Replace2(Replace2(text, "BS", "n", "NL"), "BS", "Q", "Q")

\* the agent answers with the JSON text of its report
JsonSerialize ==
    /\ js_pc = "body"
    /\ js_text' = ReportContent(js_body)
    /\ js_pc' = "content"
    /\ UNCHANGED <<cfgVars, refineVars, planVars, searchVars, normVars, ctxVars, agentVars, printVars, runVars, js_body>>

\* lines 871-874: re.search(report_pattern, report_content) and group(1)
JsonExtract ==
    /\ js_pc = "content"
    /\ IF GroupEnd(js_text, 1) > 0
          THEN js_text' = Group1(js_text) /\ js_pc' = "group"
          ELSE js_text' = js_text /\ js_pc' = "nomatch"
    /\ UNCHANGED <<cfgVars, refineVars, planVars, searchVars, normVars, ctxVars, agentVars, printVars, runVars, js_body>>

\* line 875
JsonUnescape ==
    /\ js_pc = "group"
    /\ js_text' = Unescape(js_text)
    /\ js_pc' = "done"
    /\ UNCHANGED <<cfgVars, refineVars, planVars, searchVars, normVars, ctxVars, agentVars, printVars, runVars, js_body>>

InitJson ==
    /\ RefineIdle
    /\ ContextIdle
    /\ AgentIdle
    /\ PrinterIdle
    /\ SearchIdle
    /\ NormIdle
    /\ RunIdle
    /\ js_pc = "body"
    /\ js_body \in SeqsUpTo(BodyChars, MaxBody)
    /\ js_text = js_body

NextJson ==
    \/ JsonSerialize
    \/ JsonExtract
    \/ JsonUnescape

SpecJson == InitJson /\ [][NextJson]_vars

\* C23: round trip of the embedded-JSON extraction: for every markdown body,
\* serializing the report as JSON text and running the markdown_report pattern and
\* the unescaping on it yields a body identical to the original, also for bodies
\* with newlines, double quotes, backslashes or other characters that JSON escapes.
C23_JsonRoundTrip ==
    /\ js_pc # "nomatch"
    /\ js_pc = "done" => js_text = js_body

(***************************************************************************)
(* Properties of the delay between the chunks of the search stage          *)
(***************************************************************************)
\* chunk k is the last chunk of the plan
LastChunk(k) == k * ChunkSize >= Len(searches)

\* C24: a 1-second delay is inserted between every two consecutive batches of the
\* search stage and not after the last batch, whatever the outcome of the earlier
\* batch (success, per-task failures or batch timeout), and the delay elapses
\* outside every per-task and per-batch timeout window.
C24_DelayBetweenBatches ==
    /\ \A k \in 1 .. Len(chunk_log) :
          /\ Len(start_order) > k => chunk_log[k].slept
          /\ LastChunk(k) => ~chunk_log[k].slept
    /\ se_pc = "sleep" => (InFlight = {} /\ elapsed = 0)

(***************************************************************************)
(* Properties of the order of the stages of run                            *)
(***************************************************************************)
\* the stages in the order of run: route (line 259), plan (264), search (268 and
\* 272-274: web and file search), synthesize (290), refine (303), finalize (317)
StageRank(pc) ==
    IF pc = "route" THEN 1
    ELSE IF pc = "plan" THEN 2
    ELSE IF pc \in {"search", "files"} THEN 3
    ELSE IF pc \in {"write", "generate"} THEN 4
    ELSE IF pc = "refine" THEN 5
    ELSE IF pc = "display" THEN 6
    ELSE 7

\* a step of run stays in its stage or enters the next one (or an exception ends
\* the run); a stage is left only when its call has returned; the file search does
\* not lead back into the web search; after the last stage nothing runs
StageStep ==
    /\ run_pc' = "raised" \/ StageRank(run_pc') \in {StageRank(run_pc), StageRank(run_pc) + 1}
    /\ run_pc \in {"done", "raised"} => run_pc' = run_pc
    /\ (run_pc = "search" /\ run_pc' # "search") => se_pc = "returned"
    /\ run_pc = "files" => run_pc' # "search"
    /\ (run_pc = "refine" /\ run_pc' # "refine") => rf_pc \in {"returned", "raised"}
    /\ (run_pc' = run_pc /\ run_pc \notin {"search", "refine"}) => UNCHANGED vars

\* C25: a run executes its stages strictly in the order route, plan, search,
\* synthesize, refine, finalize: no stage starts before the previous stage has
\* returned, each stage runs at most once per run, and no step leads back to an
\* earlier stage (the repetition of evaluation and refinement stays inside the
\* refinement stage).
C25_StagesInOrder == [][StageStep]_vars

\* C25 witness: a run that went through all six stages and returned.
C25_Witness ==
    /\ run_pc = "done"
    /\ displayed.kind = "obj"
    /\ write_path # "none"
    /\ rf_ret.how # "none"

(***************************************************************************)
(* Properties of the refiner calls of the refinement loop                  *)
(***************************************************************************)
\* the latest evaluation met the bar
BarMetNow == eval_log # <<>> /\ BarMet(LastEval)

\* C26: meeting the bar ends the loop immediately: after an evaluation with
\* meets_standards true or overall_score >= min_quality_score no call of the
\* refiner is made before the loop returns (in particular not when the score
\* reaches min_quality_score while meets_standards is false).
C26_BarMetStopsRefining == [][BarMetNow => refine_calls' = refine_calls]_vars

\* the best pair is a report together with the score an evaluation gave to it
BestPairEvaluated ==
    (rf_pc \in {"loop", "returned"} /\ eval_log # <<>>) =>
        /\ highest_score = HighestSeen
        /\ highest_score = 0 => best_report = initial_report
        /\ highest_score > 0 =>
              \E k \in 1 .. Len(eval_log) :
                  /\ eval_log[k].report = best_report
                  /\ eval_log[k].score = highest_score

\* the best pair changes only for a strictly higher score
BestReplacedByHigher ==
    (best_report' # best_report \/ highest_score' # highest_score)
        => highest_score' > highest_score

\* C27: after every evaluation step the pair held as best is (report, score) where
\* the report is the one that was evaluated and received that score; the best
\* score is the maximum of all scores seen so far, the pair is replaced only when
\* a strictly higher score is seen, and it is updated whether the loop then stops
\* or refines.
C27_BestPairInvariant == [](BestPairEvaluated) /\ [][BestReplacedByHigher]_vars

\* some evaluation was made of the report
WasEvaluated(r) == \E k \in 1 .. Len(eval_log) : eval_log[k].report = r

\* an Exhausted return after at most max_iterations - 1 refiner calls, of a report
\* that has been evaluated
ExhaustedAfterFewerRefinements ==
    (rf_ret.how = "Exhausted" /\ max_iterations >= 1) =>
        /\ refine_calls <= max_iterations - 1
        /\ WasEvaluated(rf_ret.report)

\* no refiner call in the last iteration
NoRefinementInLastIteration ==
    iteration = max_iterations => refine_calls' = refine_calls

\* C28: the refiner is invoked after an unsatisfying evaluation only while
\* iteration < max_iterations: in the iteration where iteration = max_iterations
\* no refinement is performed, so a run that ends Exhausted makes at most
\* max_iterations - 1 refiner calls and every report it can return has been
\* evaluated.
C28_NoRefinementAtLastIteration ==
    [](ExhaustedAfterFewerRefinements) /\ [][NoRefinementInLastIteration]_vars

\* the iterations whose adopted report came from the refiner (the report handed
\* back as it is keeps the id of the report that went in)
RefinedAdopted == {k \in 1 .. Len(iter_reports) : iter_reports[k].id = k}

\* C29: every report produced by a refinement step is passed through the reference
\* normalizer before it becomes the current report of the loop (and hence before
\* it can be evaluated, tracked as best, or returned): there are at least as many
\* calls of the normalizer as adopted refined reports.
C29_RefinedReportsNormalized == Cardinality(RefinedAdopted) <= nb_passes

(***************************************************************************)
(* Properties of the renumbering of the References section                 *)
(***************************************************************************)
\* the entries listed in the References section of the input whose numeral is one
\* of the inline numerals
MappedEntries ==
    {i \in RefSection(nb_input) :
        nb_input[i].k = "entry" /\ nb_input[i].n \in RefsFound(nb_input)}

\* C30: in the References section the enumerator of each listed entry is
\* rewritten with the same old-to-new mapping as the inline markers, matched by
\* the numeral only: for every order of the entries and whatever their link texts
\* (entries sharing a link text, numerals that are suffixes of other numerals such
\* as 2 and 12 included), an entry originally numbered n ends up numbered map(n)
\* and no two entries with distinct original numerals end up with the same number.
C30_EntriesFollowTheMap ==
    nb_passes = 1 =>
        LET map == RefMap(RefsFound(nb_input))
        IN /\ \A i \in MappedEntries :
                 /\ nb_body[i].k = "entry"
                 /\ nb_body[i].n = map[nb_input[i].n]
           /\ \A i, j \in MappedEntries :
                 nb_input[i].n # nb_input[j].n => nb_body[i].n # nb_body[j].n

\* the entries listed in the References section of the input whose numeral is
\* not one of the inline numerals
UncitedEntries ==
    {i \in RefSection(nb_input) :
        nb_input[i].k = "entry" /\ nb_input[i].n \notin RefsFound(nb_input)}

\* C31: an entry of the References section whose numeral is never cited inline
\* keeps its original numeral; and when the body has no inline reference marker
\* at all, normalization leaves the whole body unchanged.
C31_UncitedEntriesKept ==
    nb_passes = 1 =>
        /\ \A i \in UncitedEntries : nb_body[i] = nb_input[i]
        /\ RefsFound(nb_input) = {} => nb_body = nb_input

(***************************************************************************)
(* The prompt context of _write_specialized_report (lines 655-682): which  *)
(* web search outcomes are written into search_results_md, and how much of *)
(* each summary.  A summary is modelled by its length in characters.       *)
(***************************************************************************)
\* the models of the report agents (scientific_research_agent.py lines 81, 120)
Models == {"gpt-4o", "o3-mini"}

\* as MaxSearches, but without the smaller limit for o3-mini
MaxSearchesLarge(model) == 8

\* line 666: max_searches = 5 if "o3-mini" in str(specialized_agent.model) else 8
MaxSearches(model) == IF model = "o3-mini" THEN 5 ELSE 8

\* line 677: summary_limit = 800 if "o3-mini" in str(specialized_agent.model) else 1500
SummaryLimit(model) == IF model = "o3-mini" THEN 800 ELSE 1500

\* lengths of summaries around the two limits
SummaryLens == {0, 800, 801, 1500, 1501}

\* line 655: [r for r in web_search_results if r.get("success", False)]
SuccessfulOnly(outcomes) == SelectSeq(outcomes, LAMBDA r : r.success)

\* lines 667-669: successful_web_searches[:max_searches]
FirstN(q, n) == SubSeq(q, 1, Min2(n, Len(q)))

\* lines 678-682: summary[:summary_limit], followed by a truncation note when the
\* summary was longer
ContextEntry(r, model) ==
    [task |-> r.task,
     kept |-> Min2(r.len, SummaryLimit(model)),
     truncated |-> r.len > SummaryLimit(model)]

\* lines 655-682: the searches of the "Web Search Results" part of the context
BuildContext(outcomes, model) ==
    LET chosen == FirstN(SuccessfulOnly(outcomes), MaxSearches(model))
    IN [k \in 1 .. Len(chosen) |-> ContextEntry(chosen[k], model)]

ContextBuild ==
    /\ cx_pc = "start"
    /\ cx_context' = BuildContext(cx_results, cx_model)
    /\ cx_pc' = "built"
    /\ UNCHANGED <<cfgVars, refineVars, planVars, searchVars, normVars, jsonVars, agentVars, printVars, runVars,
                   cx_model, cx_results>>

\* the outcome lists considered: up to MaxOutcomes outcomes, any of them failed;
\* the summaries of the successful ones have one length at the odd and one at the
\* even positions
InitContext ==
    /\ RefineIdle
    /\ SearchIdle
    /\ NormIdle
    /\ JsonIdle
    /\ AgentIdle
    /\ PrinterIdle
    /\ RunIdle
    /\ cx_pc = "start"
    /\ cx_model \in Models
    /\ \E n \in 0 .. MaxOutcomes : \E ok \in [1 .. n -> BOOLEAN] :
       \E l1 \in SummaryLens, l2 \in SummaryLens :
           cx_results = [k \in 1 .. n |->
                            [task |-> k - 1,
                             success |-> ok[k],
                             len |-> IF ~ok[k] THEN 0 ELSE IF k % 2 = 1 THEN l1 ELSE l2]]
    /\ cx_context = <<>>

NextContext == ContextBuild

SpecContext == InitContext /\ [][NextContext]_vars

\* the successful tasks among the outcomes, and the rank of one among them
SuccessfulTasks == {cx_results[k].task : k \in {j \in DOMAIN cx_results : cx_results[j].success}}

SuccessRank(t) == Cardinality({u \in SuccessfulTasks : u <= t})

\* C32: the prompt context contains only successful search outcomes and is capped
\* purely by the generation profile: with o3-mini at most the first 5 successful
\* results, each summary cut to 800 characters; otherwise at most the first 8,
\* each summary cut to 1500 characters; failed outcomes never appear.
C32_ContextCappedByProfile ==
    cx_pc = "built" =>
        LET cap == IF cx_model = "o3-mini" THEN 5 ELSE 8
            cut == IF cx_model = "o3-mini" THEN 800 ELSE 1500
        IN /\ Len(cx_context) = Min2(Cardinality(SuccessfulTasks), cap)
           /\ \A k \in DOMAIN cx_context :
                 LET t == cx_context[k].task
                 IN /\ t \in SuccessfulTasks
                    /\ SuccessRank(t) = k
                    /\ cx_context[k].kept = Min2(cx_results[t + 1].len, cut)
                    /\ cx_context[k].kept <= cut

\* C32 witness: with o3-mini, more than 5 successful outcomes among failed ones,
\* and a summary longer than 800 characters that was cut.
C32_Witness ==
    /\ cx_pc = "built"
    /\ cx_model = "o3-mini"
    /\ Cardinality(SuccessfulTasks) > 5
    /\ Cardinality(SuccessfulTasks) < Len(cx_results)
    /\ Len(cx_context) = 5
    /\ \E k \in DOMAIN cx_context : cx_context[k].truncated

(***************************************************************************)
(* Order of the outcomes returned by _execute_web_searches                 *)
(***************************************************************************)
\* line 525: the chunk (0-based) that search t belongs to
ChunkOf(t) == t \div ChunkSize

\* the outcomes of a chunk come before the outcomes of every later chunk
OutcomesInChunkOrder ==
    \A j, k \in 1 .. Len(results) :
        j < k => ChunkOf(results[j].task) <= ChunkOf(results[k].task)

\* the outcome at position i (0-based) is the outcome of search i of the plan
OutcomeAtItsIndex == \A k \in 1 .. Len(results) : results[k].task = searches[k]

\* C33: in the sequence the executor returns, the outcomes are appended in chunk
\* order, every outcome of chunk b before every outcome of chunk b+1, whatever mix
\* of successful, failed and timed-out chunks; and the outcome at position i is
\* the outcome of input search i.
C33_OutcomesInTaskOrder ==
    se_pc = "returned" => (OutcomesInChunkOrder /\ OutcomeAtItsIndex)

(***************************************************************************)
(* iterative_refinement with any iteration count                           *)
(***************************************************************************)
\* max_iterations is an int of the caller (main.py line 20: type=int, no check):
\* zero and negative counts are passed on as they are
IterCounts == (0 - 1) .. MaxIter

InitRefineAny ==
    /\ research_type \in ResearchTypes
    /\ max_iterations \in IterCounts
    /\ min_quality_score \in 1 .. MaxScore
    /\ \E kind \in {"dict", "none"} : RefineEntry(Report(0, kind))
    /\ SearchIdle
    /\ NormIdle
    /\ JsonIdle
    /\ ContextIdle
    /\ AgentIdle
    /\ PrinterIdle
    /\ RunIdle

SpecRefineAny == InitRefineAny /\ [][NextRefine]_vars

\* with max_iterations <= 0 nothing is invoked and the initial report comes back
NoIterationReturnsInitial ==
    max_iterations <= 0 =>
        /\ rf_pc \in {"loop", "returned"}
        /\ eval_log = <<>>
        /\ refine_calls = 0
        /\ rf_pc = "returned" =>
              rf_ret = [how |-> "Exhausted", report |-> initial_report, score |-> 0,
                        history |-> <<>>]

\* exhausted without any evaluation scoring above 0
ExhaustedAtZero ==
    /\ rf_ret.how = "Exhausted"
    /\ \A k \in 1 .. Len(eval_log) : eval_log[k].score <= 0

\* C34: with max_iterations <= 0 the loop invokes neither the evaluator nor the
\* refiner and returns the initial report unchanged, with score 0 and an empty
\* history; and for any max_iterations, when no evaluation scores above 0, the
\* report returned on exhaustion is the initial report.
C34_InitialReportIsTheFloor ==
    /\ NoIterationReturnsInitial
    /\ ExhaustedAtZero => (rf_ret.report = initial_report /\ rf_ret.score = 0)

\* C34 witness: exhausted after two evaluations that scored 0 and two refinements;
\* the report last produced is not the initial one, the report returned is.
C34_Witness ==
    /\ ExhaustedAtZero
    /\ Len(eval_log) = 2
    /\ refine_calls = 2
    /\ current_report # initial_report
    /\ rf_ret.report = initial_report

(***************************************************************************)
(* The 120 s of a search against the 180 s of its chunk                    *)
(***************************************************************************)
\* lines 529-566: the step ends the chunk that is being gathered
ChunkEnds == se_pc = "gather" /\ Len(chunk_log') = Len(chunk_log) + 1

\* lines 416-422: no search of the chunk is past its 120 s and still waiting for
\* its cancelled agent call to end
PromptlyCancelled == \A t \in CurrentChunk : task_state[t] # "stuck"

\* lines 529-533: the chunk ended through the outcomes of its searches, and every
\* search of the chunk that succeeded has its success in results
EndsThroughOutcomes ==
    /\ chunk_log'[Len(chunk_log')].how = "gathered"
    /\ \A t \in CurrentChunk :
          task_state[t] = "ok" =>
              \E k \in (Len(results) + 1) .. Len(results') :
                  results'[k].task = t /\ results'[k].success

\* C35: the searches of a chunk start together and each has a 120 s timeout,
\* shorter than the 180 s of the chunk; so whenever a timed-out search is cancelled
\* promptly the chunk timeout is not reached: the chunk ends through the outcomes
\* of its searches, and the successes of the chunk are never discarded.
C35_ChunkEndsThroughOutcomes == [][(ChunkEnds /\ PromptlyCancelled) => EndsThroughOutcomes]_vars

(***************************************************************************)
(* EnhancedAgent (enhanced_agent.py): run, run_with_tools and              *)
(* _execute_with_retry.  The API call openai.Response.acreate and the tool *)
(* handlers are external: each returns or raises.                          *)
(***************************************************************************)
ToolSet == {Tools[k] : k \in DOMAIN Tools}

\* retry_delay, in seconds
RetryDelays == {1, 2}

\* as Backoff, but without the doubling
BackoffConstant(delay, retry) == delay

\* lines 126, 147: self.retry_delay * (2 ** retry)
Backoff(delay, retry) == delay * (2 ^ retry)

\* lines 125, 146: if retry < self.max_retries (sleep and go on), else raise e
RetryAgain(retry, maxr) == retry < maxr

\* line 120 / line 52: _execute_with_retry is entered
ExecEnter ==
    /\ ex_retry' = 0
    /\ ex_log' = <<>>
    /\ ex_sleeps' = <<>>
    /\ ex_out' = NoOutcome

\* lines 124-128: the handler of run_with_tools caught an exception: sleep and take
\* the next iteration of the loop of line 73, or raise after the last one
OuterExcept ==
    IF RetryAgain(ag_retry, ag_max_retries)
      THEN /\ ag_retry' = ag_retry + 1
           /\ ag_pc' = "first"
      ELSE /\ ag_retry' = ag_retry
           /\ ag_pc' = "raised"

\* lines 75-94, 122: the request of run_with_tools returns a response; its tool
\* invocations are collected in the order of self.tools (lines 87-91); with
\* invocations and handlers (line 94) the invoked tools that have a handler
\* (line 96) are handled, then _execute_with_retry is called (line 120); otherwise
\* the response is returned (line 122)
AgentRequestReturns ==
    /\ ag_pc = "first"
    /\ ag_first' = ag_first + 1
    /\ \E req \in SUBSET ToolSet :
          LET tool_invocations == SelectSeq(Tools, LAMBDA t : t \in req)
              todo == SelectSeq(tool_invocations, LAMBDA t : t \in ag_handlers)
          IN IF tool_invocations # <<>> /\ ag_handlers # {}
               THEN /\ ag_pending' = todo
                    /\ IF todo = <<>>
                         THEN ag_pc' = "exec" /\ ExecEnter
                         ELSE ag_pc' = "tools" /\ UNCHANGED <<ex_retry, ex_log, ex_sleeps, ex_out>>
               ELSE /\ ag_pending' = <<>>
                    /\ ag_pc' = "returned"
                    /\ UNCHANGED <<ex_retry, ex_log, ex_sleeps, ex_out>>
    /\ UNCHANGED <<cfgVars, refineVars, planVars, searchVars, normVars, jsonVars, ctxVars, printVars, runVars,
                   ag_entry, ag_max_retries, ag_retry_delay, ag_handlers, ag_retry,
                   ag_handled, ag_messages, ag_follow>>

\* lines 75, 124-128: the request of run_with_tools raises
AgentRequestFails ==
    /\ ag_pc = "first"
    /\ ag_first' = ag_first + 1
    /\ OuterExcept
    /\ UNCHANGED <<cfgVars, refineVars, planVars, searchVars, normVars, jsonVars, ctxVars, printVars, runVars,
                   ag_entry, ag_max_retries, ag_retry_delay, ag_handlers, ag_pending,
                   ag_handled, ag_messages, ag_follow, ex_retry, ex_log, ex_sleeps, ex_out>>

\* lines 95-120: the handler of the next invoked tool returns; the tool call and the
\* tool result are appended to messages; after the last tool, line 120
AgentToolHandled ==
    /\ ag_pc = "tools"
    /\ LET t == Head(ag_pending)
       IN /\ ag_handled' = [ag_handled EXCEPT ![t] = @ + 1]
          /\ ag_messages' = [ag_messages EXCEPT ![t] = @ + 1]
    /\ ag_pending' = Tail(ag_pending)
    /\ IF Tail(ag_pending) = <<>>
         THEN ag_pc' = "exec" /\ ExecEnter
         ELSE ag_pc' = "tools" /\ UNCHANGED <<ex_retry, ex_log, ex_sleeps, ex_out>>
    /\ UNCHANGED <<cfgVars, refineVars, planVars, searchVars, normVars, jsonVars, ctxVars, printVars, runVars,
                   ag_entry, ag_max_retries, ag_retry_delay, ag_handlers, ag_retry,
                   ag_first, ag_follow>>

\* lines 97, 124-128: the handler of the next invoked tool raises
AgentToolRaises ==
    /\ ag_pc = "tools"
    /\ ag_handled' = [ag_handled EXCEPT ![Head(ag_pending)] = @ + 1]
    /\ ag_pending' = <<>>
    /\ OuterExcept
    /\ UNCHANGED <<cfgVars, refineVars, planVars, searchVars, normVars, jsonVars, ctxVars, printVars, runVars,
                   ag_entry, ag_max_retries, ag_retry_delay, ag_handlers,
                   ag_messages, ag_first, ag_follow, ex_retry, ex_log, ex_sleeps, ex_out>>

\* lines 132-143: an API attempt of _execute_with_retry succeeds: return the result
ExecAttemptSucceeds ==
    /\ ag_pc = "exec"
    /\ ex_log' = Append(ex_log, "ok")
    /\ ag_follow' = ag_follow + 1
    /\ ex_out' = [how |-> "returned", err |-> 0]
    /\ ag_pc' = "returned"
    /\ UNCHANGED <<cfgVars, refineVars, planVars, searchVars, normVars, jsonVars, ctxVars, printVars, runVars,
                   ag_entry, ag_max_retries, ag_retry_delay, ag_handlers, ag_retry, ag_pending,
                   ag_handled, ag_messages, ag_first, ex_retry, ex_sleeps>>

\* lines 132-134, 145-149: an API attempt of _execute_with_retry raises: sleep and
\* try again, or raise e after the last attempt.  The call of line 120 is inside
\* the try of run_with_tools (lines 74-128): the error raised there is caught by the
\* handler of line 124; the call of line 52 (run) is not protected.
ExecAttemptFails ==
    /\ ag_pc = "exec"
    /\ ex_log' = Append(ex_log, "fail")
    /\ ag_follow' = ag_follow + 1
    /\ IF RetryAgain(ex_retry, ag_max_retries)
         THEN /\ ex_sleeps' = Append(ex_sleeps, Backoff(ag_retry_delay, ex_retry))
              /\ ex_retry' = ex_retry + 1
              /\ UNCHANGED <<ex_out, ag_pc, ag_retry>>
         ELSE /\ ex_out' = [how |-> "raised", err |-> Len(ex_log) + 1]
              /\ UNCHANGED <<ex_sleeps, ex_retry>>
              /\ IF ag_entry = "run"
                   THEN ag_pc' = "raised" /\ ag_retry' = ag_retry
                   ELSE OuterExcept
    /\ UNCHANGED <<cfgVars, refineVars, planVars, searchVars, normVars, jsonVars, ctxVars, printVars, runVars,
                   ag_entry, ag_max_retries, ag_retry_delay, ag_handlers, ag_pending,
                   ag_handled, ag_messages, ag_first>>

\* lines 14-32 and 41-52 / 62-73: an agent with its settings, and one call of run
\* (which goes to _execute_with_retry at once) or of run_with_tools
InitAgent ==
    /\ RefineIdle
    /\ SearchIdle
    /\ NormIdle
    /\ JsonIdle
    /\ ContextIdle
    /\ PrinterIdle
    /\ RunIdle
    /\ ag_entry \in {"run", "run_with_tools"}
    /\ ag_max_retries \in 0 .. MaxRetries
    /\ ag_retry_delay \in RetryDelays
    /\ ag_handlers \in SUBSET ToolSet
    /\ ag_entry = "run" => ag_handlers = {}
    /\ ag_pc = IF ag_entry = "run" THEN "exec" ELSE "first"
    /\ ag_retry = 0
    /\ ag_pending = <<>>
    /\ ag_handled = [t \in ToolSet |-> 0]
    /\ ag_messages = [t \in ToolSet |-> 0]
    /\ ag_first = 0
    /\ ag_follow = 0
    /\ ex_retry = 0
    /\ ex_log = <<>>
    /\ ex_sleeps = <<>>
    /\ ex_out = NoOutcome

NextAgent ==
    \/ AgentRequestReturns
    \/ AgentRequestFails
    \/ AgentToolHandled
    \/ AgentToolRaises
    \/ ExecAttemptSucceeds
    \/ ExecAttemptFails

SpecAgent == InitAgent /\ [][NextAgent]_vars

\* the failed attempts of the current call of _execute_with_retry
FailedAttempts == {k \in DOMAIN ex_log : ex_log[k] = "fail"}

\* C36: _execute_with_retry makes at most max_retries + 1 API attempts; it returns
\* the result of the first attempt that succeeds and makes no attempt after it;
\* it sleeps retry_delay * 2^r between failed attempt r (0-based) and the next
\* attempt; after max_retries + 1 consecutive failures it re-raises the last
\* error without sleeping again.
C36_RetryWithBackoff ==
    /\ Len(ex_log) <= ag_max_retries + 1
    /\ \A k \in 1 .. (Len(ex_log) - 1) : ex_log[k] = "fail"
    /\ (ex_out.how = "returned") <=> (ex_log # <<>> /\ ex_log[Len(ex_log)] = "ok")
    /\ (ex_out.how = "raised") <=>
          (Len(ex_log) = ag_max_retries + 1 /\ FailedAttempts = DOMAIN ex_log)
    /\ ex_out.how = "raised" => ex_out.err = Len(ex_log)
    /\ Len(ex_sleeps) = Cardinality(FailedAttempts) - (IF ex_out.how = "raised" THEN 1 ELSE 0)
    /\ \A k \in DOMAIN ex_sleeps : ex_sleeps[k] = ag_retry_delay * (2 ^ (k - 1))

\* C36 witness: with max_retries = 2 and retry_delay = 2 every attempt failed; the
\* call slept 2 s and 4 s and raised the error of the third attempt.
C36_Witness ==
    /\ ag_max_retries = 2
    /\ ex_out = [how |-> "raised", err |-> 3]
    /\ ex_sleeps = <<2, 4>>

\* C37: in one call of run_with_tools every tool invocation is handled at most
\* once and its tool-call/tool-result messages are appended at most once, and
\* there are at most max_retries + 1 API attempts for the first request plus
\* max_retries + 1 for the follow-up request, also when the follow-up request
\* fails.
C37_ToolsHandledOnce ==
    ag_entry = "run_with_tools" =>
        /\ \A t \in ToolSet : ag_handled[t] <= 1 /\ ag_messages[t] <= 1
        /\ ag_first <= ag_max_retries + 1
        /\ ag_follow <= ag_max_retries + 1

(***************************************************************************)
(* The Printer during a run: the progress items and research_result.       *)
(* One step per stage of run, with the calls of printer.update_item the    *)
(* stage makes, in the order it makes them.                                *)
(***************************************************************************)
\* printer.py line 32: self.items[item_id] = (content, is_done)
UpdateItem(its, id, is_done) == [its EXCEPT ![id] = IF is_done THEN "done" ELSE "open"]

\* printer.py lines 42-48: an update with is_done and "Research complete" in its
\* content takes the content of the first done item with "Report" in its id; none
\* of the ids has it ("final_report" is written in lower case)
ReportItems == ItemIds \cap {"Report", "FinalReport"}

\* lines 278-287 and scientific_research_agent.py lines 81, 120, 155, 192: the model
\* of the agent that writes the report
ModelOf(rtype) == IF rtype = "Technical" THEN "o3-mini" ELSE "gpt-4o"

\* line 313: hasattr(final_report, 'text') and final_report.text: neither a dict,
\* None, ReportData nor ScientificReportData has an attribute text
HasText(final) == FALSE

\* the paths of the synthesizer on which "writing" is updated with is_done=True
\* (lines 861, 905, 917, 936, 957, 981, 998, 1017)
WritingClosed(path) == path \notin {"timeout", "no_items"}

\* the paths of the synthesizer that store the body of their report in
\* printer.research_result (lines 856, 888, 913, 938, 961, 994)
ResultSet(path) == path \in {"structured", "json", "markdown", "raw", "extract_error", "unformatted"}

\* lines 355-395: the router call; on an exception the item "routing_error" is
\* written and "routing" is left as it was
ProgRoute ==
    /\ pv_pc = "route"
    /\ \E failed \in BOOLEAN, rtype \in ResearchTypes :
          /\ failed => rtype = "Interdisciplinary"
          /\ pv_model' = ModelOf(rtype)
          /\ items' = IF failed
                        THEN UpdateItem(UpdateItem(items, "routing", FALSE), "routing_error", TRUE)
                        ELSE UpdateItem(UpdateItem(items, "routing", FALSE), "routing", TRUE)
    /\ pv_pc' = "plan"
    /\ UNCHANGED <<cfgVars, refineVars, planVars, searchVars, normVars, jsonVars, ctxVars, agentVars, runVars,
                   pv_stype, pv_orphans, pv_final, research_result>>

\* lines 328-353: the planner call returns; or it raises (no handler) after line 331
ProgPlan ==
    /\ pv_pc = "plan"
    /\ \/ /\ items' = UpdateItem(UpdateItem(items, "planning", FALSE), "planning", TRUE)
          /\ pv_pc' = "search"
       \/ /\ items' = UpdateItem(items, "planning", FALSE)
          /\ pv_pc' = "raised"
    /\ UNCHANGED <<cfgVars, refineVars, planVars, searchVars, normVars, jsonVars, ctxVars, agentVars, runVars,
                   pv_stype, pv_model, pv_orphans, pv_final, research_result>>

\* lines 268, 397-571: the web searches, whatever self.search_type is; the item
\* "searching" is updated along the way and marked done at line 569.  A chunk whose
\* gather raised (lines 564-566) leaves its other searches running.
\* lines 271-272: the file search follows for "file" and "web_and_file"
ProgSearch ==
    /\ pv_pc = "search"
    /\ \E left \in BOOLEAN : pv_orphans' = left
    /\ items' = UpdateItem(UpdateItem(items, "searching", FALSE), "searching", TRUE)
    /\ pv_pc' = AfterWebSearch(pv_stype)
    /\ UNCHANGED <<cfgVars, refineVars, planVars, searchVars, normVars, jsonVars, ctxVars, agentVars, runVars,
                   pv_stype, pv_model, pv_final, research_result>>

\* lines 410, 432: a search that was left running goes on while run awaits the
\* later calls: it updates "searching" with is_done False
ProgOrphanResponds ==
    /\ pv_pc \in {"generate", "refine"}
    /\ pv_orphans
    /\ pv_orphans' = FALSE
    /\ items' = UpdateItem(items, "searching", FALSE)
    /\ UNCHANGED <<cfgVars, refineVars, planVars, searchVars, normVars, jsonVars, ctxVars, agentVars, runVars,
                   pv_pc, pv_stype, pv_model, pv_final, research_result>>

\* lines 573-642: the file search; lines 699-708: with a snippet in its result the
\* synthesizer raises KeyError before it opens "writing"
ProgFileSearch ==
    /\ pv_pc = "files"
    /\ items' = UpdateItem(UpdateItem(items, "file_search", FALSE), "file_search", TRUE)
    /\ \E found \in 0 .. MaxFiles : pv_pc' = IF found > 0 THEN "raised" ELSE "write"
    /\ UNCHANGED <<cfgVars, refineVars, planVars, searchVars, normVars, jsonVars, ctxVars, agentVars, runVars,
                   pv_stype, pv_model, pv_orphans, pv_final, research_result>>

\* lines 748-775: "writing" is opened; "token_management" is opened when the model
\* is o3-mini and the prompt is estimated above 6000 tokens
ProgWriteStarts ==
    /\ pv_pc = "write"
    /\ \E large \in BOOLEAN :
          items' = IF pv_model = "o3-mini" /\ large
                     THEN UpdateItem(UpdateItem(items, "writing", FALSE), "token_management", FALSE)
                     ELSE UpdateItem(items, "writing", FALSE)
    /\ pv_pc' = "generate"
    /\ UNCHANGED <<cfgVars, refineVars, planVars, searchVars, normVars, jsonVars, ctxVars, agentVars, runVars,
                   pv_stype, pv_model, pv_orphans, pv_final, research_result>>

\* lines 778-1028: the synthesizer returns by one of its paths; the structured
\* path stores the body only when the dict has a "markdown_report" (line 855).
\* line 295: run opens "refining"
ProgWriteReturns ==
    /\ pv_pc = "generate"
    /\ \E path \in WritePaths, has_body \in BOOLEAN :
          /\ path # "structured" => has_body
          /\ items' = UpdateItem(IF path = "no_items" THEN items
                                 ELSE UpdateItem(items, "writing", WritingClosed(path)),
                                 "refining", FALSE)
          /\ research_result' = IF ResultSet(path) /\ has_body THEN "initial" ELSE research_result
    /\ pv_pc' = "refine"
    /\ UNCHANGED <<cfgVars, refineVars, planVars, searchVars, normVars, jsonVars, ctxVars, agentVars, runVars,
                   pv_stype, pv_model, pv_orphans, pv_final>>

\* lines 303-314: iterative_refinement returns the initial report or a refined one
\* and has closed "refining" (lines 213-214, 221-222); or it raises.  Line 313
\* stores final_report.text when the report has such an attribute
ProgRefine ==
    /\ pv_pc = "refine"
    /\ \/ /\ \E final \in {"initial", "refined"} :
                /\ pv_final' = final
                /\ research_result' = IF HasText(final) THEN final ELSE research_result
          /\ items' = UpdateItem(items, "refining", TRUE)
          /\ pv_pc' = "display"
       \/ /\ pv_pc' = "raised"
          /\ UNCHANGED <<pv_final, items, research_result>>
    /\ UNCHANGED <<cfgVars, refineVars, planVars, searchVars, normVars, jsonVars, ctxVars, agentVars, runVars,
                   pv_stype, pv_model, pv_orphans>>

\* lines 317-326, 1066-1069: the initial report is a dict or None, report.short_summary
\* raises on it; a refined report is displayed, "final_report" and "context" are
\* written as done; printer.py lines 42-48 run on the update of "context"
ProgDisplay ==
    /\ pv_pc = "display"
    /\ IF pv_final = "refined"
         THEN /\ items' = UpdateItem(UpdateItem(items, "final_report", TRUE), "context", TRUE)
              /\ research_result' =
                    IF \E id \in ReportItems : items'[id] = "done" THEN "item"
                    ELSE research_result
              /\ pv_pc' = "done"
         ELSE /\ pv_pc' = "raised"
              /\ UNCHANGED <<items, research_result>>
    /\ UNCHANGED <<cfgVars, refineVars, planVars, searchVars, normVars, jsonVars, ctxVars, agentVars, runVars,
                   pv_stype, pv_model, pv_orphans, pv_final>>

\* lines 252-256: run is entered and writes the item "context"
InitProgress ==
    /\ RefineIdle
    /\ SearchIdle
    /\ NormIdle
    /\ JsonIdle
    /\ ContextIdle
    /\ AgentIdle
    /\ RunIdle
    /\ pv_pc = "route"
    /\ pv_stype \in SearchTypes
    /\ pv_model = "gpt-4o"
    /\ pv_orphans = FALSE
    /\ pv_final = "none"
    /\ items = UpdateItem([id \in ItemIds |-> "absent"], "context", FALSE)
    /\ research_result = ""

NextProgress ==
    \/ ProgRoute
    \/ ProgPlan
    \/ ProgSearch
    \/ ProgOrphanResponds
    \/ ProgFileSearch
    \/ ProgWriteStarts
    \/ ProgWriteReturns
    \/ ProgRefine
    \/ ProgDisplay

SpecProgress == InitProgress /\ [][NextProgress]_vars

\* C38: after a run completes, the report content the printer holds for the
\* markdown file (printer.research_result) is the body of the final report the
\* refinement loop returned, not the body of the initial report.
C38_PrinterHoldsFinalReport ==
    pv_pc = "done" => research_result = pv_final

\* C39: when run returns normally, every progress item that was opened during the
\* run is in the done state, on every path through the stages, search timeouts
\* and the report-generation timeout included.
C39_AllItemsDone ==
    pv_pc = "done" => \A id \in ItemIds : items[id] # "open"

(***************************************************************************)
(* The search mode and the searches that run                               *)
(***************************************************************************)
\* lines 268, 525-532: a web search of the plan is started
WebSearchStarts ==
    /\ run_pc = "search"
    /\ \E t \in DOMAIN task_state :
          t \in DOMAIN task_state' /\ task_state[t] = "pending" /\ task_state'[t] = "running"

\* lines 272-274: _execute_file_searches runs
FileSearchRuns == run_pc = "files" /\ run_pc' = "write"

\* lines 271-291: run goes from the web searches to the synthesizer without a file
\* search
FileSearchSkipped == run_pc = "search" /\ run_pc' \in {"write", "generate"}

\* C40: the search mode controls which searches run: file searches are executed
\* if and only if the mode is file or web_and_file, and web searches only if the
\* mode is web or web_and_file (the mode file runs no web search).
C40_ModeSelectsSearches ==
    [][/\ WebSearchStarts => search_type \in {"web", "web_and_file"}
       /\ FileSearchRuns => search_type \in {"file", "web_and_file"}
       /\ FileSearchSkipped => search_type = "web"]_vars

====
